---- MODULE Spec2Model ----
(***************************************************************************)
(* crab-router: peer manager / relay engine, outbound filler and address  *)
(* store, modelled from src/src/manager.rs, src/src/p2p/peer.rs,          *)
(* src/src/db.rs and src/src/discovery.rs.                                *)
(*                                                                         *)
(* Size-like program constants (cache limits, queue capacity, TTL, target) *)
(* keep the source's names and are scaled down so that the capped cases    *)
(* (eviction, full queue, expiry, deficit) happen inside the explored      *)
(* state space.                                                            *)
(***************************************************************************)
EXTENDS Integers, Sequences, FiniteSets, TLC

\* ------------------------------------------------------------------ bounds
MaxEvents == 1        \* events held in the manager's channel at once
MaxTxReceived == 3    \* cap on the transactions_received counter
MaxClock == 3         \* last instant the clock reaches
MaxConns == 3         \* connections (endpoints) ever created in a behaviour
MaxTasks == 2         \* dial and accept tasks spawned while peers come and go
MaxGetAddr == 3       \* cap on the getaddr_messages_received counter
MaxFailures == 6      \* cap on connection_failures in the store's own runs
MaxFrames == 2        \* frames a remote peer sends in the codec's own runs
MaxIgnored == 2       \* messages a handshake discards while it waits
MaxRelayed == 2       \* cap on the transactions_relayed counter
MaxExchange == 2      \* cap on the counted messages of the exchange runs
MaxAddrMsgs == 1      \* cap on the addr_messages_received counter

\* ------------------------------------------------------- program constants
SEEN_TX_CACHE_LIMIT == 3            \* manager.rs:23 (100_000, scaled)
RECENT_TX_CACHE_LIMIT == 1          \* manager.rs:24 (20_000, scaled)
REQUESTED_TXID_TTL == 2             \* manager.rs:25 (120 s, scaled to ticks)
MAX_CONNECT_ATTEMPTS_PER_TICK == 192 \* manager.rs:27
OUTBOUND_QUEUE_CAPACITY == 1        \* peer.rs:17 (2048, scaled)
target_peers == 2                   \* config.rs:12 (1000, scaled)
GETADDR_RESPONSE_LIMIT == 1         \* manager.rs:28 (50, scaled)
MAX_MESSAGE_SIZE == 2               \* peer.rs:16 (4 MiB, scaled)

\* ------------------------------------------------------------ value spaces
Addrs == {"a1", "a2", "a3"}
\* An IPv6 address the store may hold; the listener binds IPv4 only.
Addrs6 == {"v6"}
is_ipv6(a) == a \in Addrs6
ConnIds == 1..MaxConns

\* db.rs:9-15, in the text form of as_str (db.rs:31-39)
NodeType == {"unknown", "knots", "core", "libre", "other"}

\* A user agent is the sequence of its characters.
UpperCase == << "A", "B", "C", "D", "E", "F", "G", "H", "I", "J", "K", "L", "M",
               "N", "O", "P", "Q", "R", "S", "T", "U", "V", "W", "X", "Y", "Z" >>
LowerCase == << "a", "b", "c", "d", "e", "f", "g", "h", "i", "j", "k", "l", "m",
               "n", "o", "p", "q", "r", "s", "t", "u", "v", "w", "x", "y", "z" >>

to_lowercase(s) ==
  [i \in 1..Len(s) |->
     IF \E k \in 1..26 : UpperCase[k] = s[i]
     THEN LowerCase[CHOOSE k \in 1..26 : UpperCase[k] = s[i]]
     ELSE s[i]]

contains(s, pat) ==
  \E i \in 0..(Len(s) - Len(pat)) : SubSeq(s, i + 1, i + Len(pat)) = pat

\* from_user_agent testing satoshi / core before knots and libre.
from_user_agent_core_first(agent) ==
  LET lower == to_lowercase(agent) IN
  IF contains(lower, <<"s","a","t","o","s","h","i">>)
     \/ contains(lower, <<"c","o","r","e">>) THEN "core"
  ELSE IF contains(lower, <<"k","n","o","t","s">>) THEN "knots"
  ELSE IF contains(lower, <<"l","i","b","r","e">>) THEN "libre"
  ELSE "other"

from_user_agent(agent) ==
  LET lower == to_lowercase(agent) IN
  IF contains(lower, <<"k","n","o","t","s">>) THEN "knots"
  ELSE IF contains(lower, <<"l","i","b","r","e">>) THEN "libre"
  ELSE IF contains(lower, <<"s","a","t","o","s","h","i">>)
          \/ contains(lower, <<"c","o","r","e">>) THEN "core"
  ELSE "other"

\* The user agent the remote node at an address advertises in its Version.
AgentOf(a) ==
  CASE a = "a1" -> <<"/","S","a","t","o","s","h","i",":","2","5","/">>
    [] a = "a2" -> <<"/","S","a","t","o","s","h","i",":","2","5","/","K","n","o","t","s",":","1","/">>
    [] a = "a3" -> <<"/","L","i","b","r","e"," ","R","e","l","a","y","/">>
    [] OTHER    -> <<"/","F","o","o","/">>

\* ------------------------------------------------------------ transactions
\* A transaction is its witness-free body and its witness (0 = no witness).
Txs == { [body |-> 1, wit |-> 0], [body |-> 2, wit |-> 1],
         [body |-> 2, wit |-> 2] }

\* txid commits to the body only; wtxid to body and witness, and equals the
\* txid for a transaction without witness.
compute_txid(tx) == tx.body
compute_wtxid(tx) == IF tx.wit = 0 THEN tx.body ELSE 10 * tx.body + tx.wit

Txids == { compute_txid(tx) : tx \in Txs }
Keys == { compute_txid(tx) : tx \in Txs } \cup { compute_wtxid(tx) : tx \in Txs }

Transaction(h) == [kind |-> "Transaction", hash |-> h]
WTx(h) == [kind |-> "WTx", hash |-> h]
WitnessTransaction(h) == [kind |-> "WitnessTransaction", hash |-> h]
Block(h) == [kind |-> "Block", hash |-> h]

inventory_key(inv) ==
  IF inv.kind \in {"Transaction", "WTx", "WitnessTransaction"}
  THEN <<inv.hash>> ELSE <<>>

\* -------------------------------------------------------------- RelayState
RelayStateDefault ==
  [ seen_txids |-> {}, seen_order |-> <<>>, requested_txids |-> <<>>,
    tx_cache |-> <<>>, tx_by_wtxid |-> <<>>, tx_cache_order |-> <<>> ]

\* Maps (HashMap) are functions over the set of their keys.
MapRemove(m, k) == [x \in (DOMAIN m) \ {k} |-> m[x]]
MapInsert(m, k, v) == [x \in (DOMAIN m) \cup {k} |-> IF x = k THEN v ELSE m[x]]
MapRetain(m, P(_, _)) == [x \in {y \in DOMAIN m : P(y, m[y])} |-> m[x]]

\* cleanup_requested keeping an entry whose age equals the TTL.
cleanup_requested_inclusive(rs, now) ==
  LET Fresh(k, requested_at) == now - requested_at <= REQUESTED_TXID_TTL IN
  [rs EXCEPT !.requested_txids = MapRetain(@, Fresh)]

cleanup_requested(rs, now) ==
  LET Fresh(k, requested_at) == now - requested_at < REQUESTED_TXID_TTL IN
  [rs EXCEPT !.requested_txids = MapRetain(@, Fresh)]

mark_requested(rs, key, now) ==
  LET c == cleanup_requested(rs, now) IN
  IF key \in c.seen_txids \/ key \in DOMAIN c.requested_txids
  THEN [rs |-> c, ret |-> FALSE]
  ELSE [rs |-> [c EXCEPT !.requested_txids = MapInsert(@, key, now)],
        ret |-> TRUE]

\* SeenEvict popping the back of the queue instead of the front.
RECURSIVE SeenEvict_pop_back(_)
SeenEvict_pop_back(rs) ==
  IF Len(rs.seen_order) > SEEN_TX_CACHE_LIMIT
  THEN SeenEvict_pop_back(
         [rs EXCEPT !.seen_txids = @ \ {rs.seen_order[Len(rs.seen_order)]},
                    !.seen_order = SubSeq(@, 1, Len(@) - 1)])
  ELSE rs

RECURSIVE SeenEvict(_)
SeenEvict(rs) ==
  IF Len(rs.seen_order) > SEEN_TX_CACHE_LIMIT
  THEN SeenEvict([rs EXCEPT !.seen_txids = @ \ {Head(rs.seen_order)},
                            !.seen_order = Tail(@)])
  ELSE rs

\* mark_seen without the early return for a key already present.
mark_seen_reinsert(rs, key) ==
  [rs |-> SeenEvict([rs EXCEPT !.seen_txids = @ \cup {key},
                               !.seen_order = Append(@, key)]),
   ret |-> TRUE]

mark_seen(rs, key) ==
  IF key \in rs.seen_txids
  THEN [rs |-> rs, ret |-> FALSE]
  ELSE [rs |-> SeenEvict([rs EXCEPT !.seen_txids = @ \cup {key},
                                    !.seen_order = Append(@, key)]),
        ret |-> TRUE]

complete_request(rs, key) ==
  [rs EXCEPT !.requested_txids = MapRemove(@, key)]

\* TxCacheEvict that leaves tx_by_wtxid alone.
RECURSIVE TxCacheEvict_keep_index(_)
TxCacheEvict_keep_index(rs) ==
  IF Len(rs.tx_cache_order) > RECENT_TX_CACHE_LIMIT
  THEN LET oldest == Head(rs.tx_cache_order)
       IN TxCacheEvict_keep_index(
            [rs EXCEPT !.tx_cache_order = Tail(@),
                       !.tx_cache = MapRemove(@, oldest)])
  ELSE rs

RECURSIVE TxCacheEvict(_)
TxCacheEvict(rs) ==
  IF Len(rs.tx_cache_order) > RECENT_TX_CACHE_LIMIT
  THEN LET oldest == Head(rs.tx_cache_order)
           Keep(w, mapped_txid) == mapped_txid # oldest
       IN TxCacheEvict([rs EXCEPT !.tx_cache_order = Tail(@),
                                  !.tx_by_wtxid = MapRetain(@, Keep),
                                  !.tx_cache = MapRemove(@, oldest)])
  ELSE rs

\* insert_tx queueing the txid whether or not the cache holds it.
insert_tx_push_always(rs, txid, tx) ==
  LET r1 == [rs EXCEPT !.tx_by_wtxid = MapInsert(@, compute_wtxid(tx), txid)]
      r2 == [r1 EXCEPT !.tx_cache_order = Append(@, txid)]
      r3 == [r2 EXCEPT !.tx_cache = MapInsert(@, txid, tx)]
  IN TxCacheEvict(r3)

insert_tx(rs, txid, tx) ==
  LET r1 == [rs EXCEPT !.tx_by_wtxid = MapInsert(@, compute_wtxid(tx), txid)]
      r2 == IF txid \notin DOMAIN r1.tx_cache
            THEN [r1 EXCEPT !.tx_cache_order = Append(@, txid)] ELSE r1
      r3 == [r2 EXCEPT !.tx_cache = MapInsert(@, txid, tx)]
  IN TxCacheEvict(r3)

\* Option<Transaction> as a sequence of length 0 or 1.
get_tx(rs, txid) ==
  IF txid \in DOMAIN rs.tx_cache THEN <<rs.tx_cache[txid]>> ELSE <<>>

get_tx_by_wtxid(rs, wtxid) ==
  IF wtxid \in DOMAIN rs.tx_by_wtxid
  THEN get_tx(rs, rs.tx_by_wtxid[wtxid]) ELSE <<>>

\* ----------------------------------------------------------- address store
\* A row of table nodes (db.rs:73-83), keyed by addr.  user_agent is the
\* Option as a sequence of length 0 or 1; version and services are written
\* from the same Version message, or as None, together with it.
NodeInfo(node_type, last_seen, connection_failures, is_reachable, user_agent) ==
  [ node_type |-> node_type, last_seen |-> last_seen,
    connection_failures |-> connection_failures,
    is_reachable |-> is_reachable, user_agent |-> user_agent ]

\* insert_or_update whose ON CONFLICT keeps the failure accounting.
insert_or_update_keep_failures(d, addr, info) ==
  [db |-> MapInsert(d, addr,
            IF addr \in DOMAIN d
            THEN [info EXCEPT !.connection_failures = d[addr].connection_failures,
                              !.is_reachable = d[addr].is_reachable]
            ELSE info),
   ret |-> addr \notin DOMAIN d]

\* The table is a map from addr to row.
insert_or_update(d, addr, info) ==
  [db |-> MapInsert(d, addr, info), ret |-> addr \notin DOMAIN d]

\* mark_failed giving a row up only after the sixth failure.
mark_failed_sixth(d, addr) ==
  IF addr \notin DOMAIN d THEN d
  ELSE [d EXCEPT ![addr] =
          [@ EXCEPT !.connection_failures = @ + 1,
                    !.is_reachable =
                       IF d[addr].connection_failures + 1 > 5
                       THEN FALSE ELSE @]]

\* mark_failed writing a first failure for an address without a row.
mark_failed_upsert(d, addr) ==
  IF addr \notin DOMAIN d
  THEN MapInsert(d, addr, [ node_type |-> "unknown", last_seen |-> 0,
                            connection_failures |-> 1, is_reachable |-> TRUE,
                            user_agent |-> <<>> ])
  ELSE [d EXCEPT ![addr] =
          [@ EXCEPT !.connection_failures = @ + 1,
                    !.is_reachable =
                       IF d[addr].connection_failures + 1 >= 5
                       THEN FALSE ELSE @]]

mark_failed(d, addr) ==
  IF addr \notin DOMAIN d THEN d
  ELSE [d EXCEPT ![addr] =
          [@ EXCEPT !.connection_failures = @ + 1,
                    !.is_reachable =
                       IF d[addr].connection_failures + 1 >= 5
                       THEN FALSE ELSE @]]

\* The row model keeps no last_connected column: nothing reads it.
mark_connected(d, addr) ==
  IF addr \notin DOMAIN d THEN d
  ELSE [d EXCEPT ![addr] =
          [@ EXCEPT !.connection_failures = 0, !.is_reachable = TRUE]]

\* DateTime<Utc>::to_rfc3339 on a time counted in half seconds: the seconds
\* field in two digits, a fraction only when there is one (".500"), then the
\* offset; the fields before the seconds are the same in every text.
Digit(n) ==
  CASE n = 0 -> "0" [] n = 1 -> "1" [] n = 2 -> "2" [] n = 3 -> "3"
    [] n = 4 -> "4" [] n = 5 -> "5" [] n = 6 -> "6" [] n = 7 -> "7"
    [] n = 8 -> "8" [] n = 9 -> "9"

to_rfc3339(t) ==
  LET secs == t \div 2 IN
  << Digit(secs \div 10), Digit(secs % 10) >>
    \o (IF t % 2 = 1 THEN << ".", "5", "0", "0" >> ELSE << >>)
    \o << "+", "0", "0", ":", "0", "0" >>

\* SQLite compares the TEXT column byte by byte (BINARY collation).
Byte(ch) ==
  CASE ch = "+" -> 43 [] ch = "." -> 46 [] ch = "0" -> 48 [] ch = "1" -> 49
    [] ch = "2" -> 50 [] ch = "3" -> 51 [] ch = "4" -> 52 [] ch = "5" -> 53
    [] ch = "6" -> 54 [] ch = "7" -> 55 [] ch = "8" -> 56 [] ch = "9" -> 57
    [] ch = ":" -> 58

RECURSIVE TextLess(_, _)
TextLess(a, b) ==
  IF b = << >> THEN FALSE
  ELSE IF a = << >> THEN TRUE
  ELSE IF Byte(Head(a)) # Byte(Head(b)) THEN Byte(Head(a)) < Byte(Head(b))
  ELSE TextLess(Tail(a), Tail(b))

\* prune_old deleting every unreachable row.
prune_old_all_unreachable(d, before) ==
  LET gone == { a \in DOMAIN d : ~d[a].is_reachable }
  IN [db |-> [a \in DOMAIN d \ gone |-> d[a]], ret |-> Cardinality(gone)]

prune_old(d, before) ==
  LET gone == { a \in DOMAIN d :
                  /\ TextLess(to_rfc3339(d[a].last_seen), to_rfc3339(before))
                  /\ ~d[a].is_reachable }
  IN [db |-> [a \in DOMAIN d \ gone |-> d[a]], ret |-> Cardinality(gone)]

TypePriority(t) ==
  CASE t = "libre" -> 0 [] t = "core" -> 1 [] t = "other" -> 2
    [] t = "unknown" -> 3 [] OTHER -> 4

\* Sequences without repetition over a set.
RECURSIVE Perms(_)
Perms(S) ==
  IF S = {} THEN { <<>> }
  ELSE UNION { { <<x>> \o p : p \in Perms(S \ {x}) } : x \in S }

Prefix(s, n) == SubSeq(s, 1, IF n < Len(s) THEN n ELSE Len(s))

\* ORDER BY: the orders of the rows S in which every row stands in the
\* relation B to each row after it.
RECURSIVE Orders(_, _)
Orders(S, B) ==
  IF S = {} THEN { <<>> }
  ELSE UNION { { <<x>> \o p : p \in Orders(S \ {x}, B) } :
               x \in { y \in S : \A z \in S \ {y} : <<y, z>> \in B } }

\* get_knots_excluding ordering by last_seen alone.
get_knots_excluding_by_last_seen(d, limit) ==
  LET rows == { a \in DOMAIN d : d[a].node_type # "knots" /\ d[a].is_reachable }
      Before(a, b) ==
        ~TextLess(to_rfc3339(d[a].last_seen), to_rfc3339(d[b].last_seen))
  IN { Prefix(p, limit) :
         p \in Orders(rows, { ab \in rows \X rows : Before(ab[1], ab[2]) }) }

\* Every answer the query may give: ties in the ORDER BY come in any order.
get_knots_excluding(d, limit) ==
  LET rows == { a \in DOMAIN d : d[a].node_type # "knots" /\ d[a].is_reachable }
      Before(a, b) ==
        \/ TypePriority(d[a].node_type) < TypePriority(d[b].node_type)
        \/ /\ TypePriority(d[a].node_type) = TypePriority(d[b].node_type)
           /\ ~TextLess(to_rfc3339(d[a].last_seen), to_rfc3339(d[b].last_seen))
  IN { Prefix(p, limit) :
         p \in Orders(rows, { ab \in rows \X rows : Before(ab[1], ab[2]) }) }

\* ------------------------------------------------------------------- state
VARIABLES
  peers,             \* PeerManager.peers: the ordered list of PeerHandle
  pending_outbound,  \* PeerManager.pending_outbound
  relay_state,       \* PeerManager.relay_state
  metrics,           \* the counters and gauges of Metrics
  db,                \* AddressDb: table nodes, addr -> row
  events,            \* the manager's event channel (event_tx / event_rx)
  conns,             \* per connection: its handshake task and its endpoint
  filler,            \* the outbound filler task: position and locals
  clock,             \* Instant::now() / Utc::now()
  sent,              \* messages PeerHandle::send accepted in the step just taken
  handled,           \* the event the manager dispatched in the step just taken
  announced          \* history: per txid, how often it was re-announced

vars == << peers, pending_outbound, relay_state, metrics, db, events,
           conns, filler, clock, sent, handled, announced >>

\* What a step that is not a dispatch of the manager leaves in sent, handled.
NoDispatch == [event |-> [type |-> "none"], is_new |-> FALSE]
Dispatch(event, is_new) == [event |-> event, is_new |-> is_new]
Quiet == sent' = <<>> /\ handled' = NoDispatch

\* A connection whose task and endpoint are over (closed), or whose peer was
\* dropped instead of being run (dropped): nothing of it is left but that.
OverConn(ep) ==
  [ task |-> "done", ep |-> ep, addr |-> "none", dir |-> "none",
    node_type |-> "unknown", qlen |-> 0 ]

\* A connection that was never created.
FreeConn ==
  [ task |-> "none", ep |-> "none", addr |-> "none", dir |-> "none",
    node_type |-> "unknown", qlen |-> 0 ]

\* Peer::handle (peer.rs:206-217): the sender is the connection's queue.
PeerHandle(c, cs) ==
  [ addr |-> cs[c].addr, node_type |-> cs[c].node_type, conn |-> c ]

MetricsNew ==
  [ transactions_received |-> 0,
    transactions_received_from |-> [t \in NodeType |-> 0],
    total_connections |-> 0, total_disconnections |-> 0,
    getaddr_messages_received |-> 0, transactions_relayed |-> 0,
    addr_messages_received |-> 0,
    connected_peers |-> 0, knots_peers |-> 0, core_peers |-> 0,
    libre_peers |-> 0, other_peers |-> 0 ]

FillerIdle ==
  [ pc |-> "idle", attempt_budget |-> 0, connected_addrs |-> {},
    pending_addrs |-> {}, addrs |-> <<>> ]

\* The filler back at interval.tick(): its locals are dropped, the target it
\* was spawned with stays.
FillerRest(f) ==
  [f EXCEPT !.pc = "idle", !.attempt_budget = 0, !.connected_addrs = {},
            !.pending_addrs = {}, !.addrs = <<>>]

\* target: --target-peers as the filler captured it (manager.rs:241).
TargetOf(f) == IF "target" \in DOMAIN f THEN f.target ELSE target_peers

\* --------------------------------------------------- manager: send helpers
\* The manager-side state a dispatch step threads through its calls.
Mgr(p, c, m, s) == [peers |-> p, conns |-> c, metrics |-> m, sent |-> s]

CountType(ps, T) == Cardinality({ i \in 1..Len(ps) : ps[i].node_type \in T })

update_peer_counts(m, ps) ==
  LET knots == CountType(ps, {"knots"})
      core  == CountType(ps, {"core"})
      libre == CountType(ps, {"libre"})
      other == CountType(ps, {"other", "unknown"})
  IN [m EXCEPT !.knots_peers = knots, !.core_peers = core,
               !.libre_peers = libre, !.other_peers = other,
               !.connected_peers = knots + core + libre + other]

\* mpsc::Sender::try_send on the endpoint's bounded queue: fails when the
\* queue is full or the receiver was dropped with the endpoint.
try_send_ok(cs, c) ==
  cs[c].ep = "running" /\ cs[c].qlen < OUTBOUND_QUEUE_CAPACITY

send_to_peer_handle(M, peer, msg) ==
  IF try_send_ok(M.conns, peer.conn)
  THEN [M |-> [M EXCEPT !.conns[peer.conn].qlen = @ + 1,
                        !.sent = Append(@, [conn |-> peer.conn,
                                            addr |-> peer.addr, msg |-> msg])],
        ret |-> TRUE]
  ELSE [M |-> M, ret |-> FALSE]

\* prune_stale_peers leaving the peer list as it is.
prune_stale_peers_none(M, stale) == M

prune_stale_peers(M, stale) ==
  IF stale = {} THEN M
  ELSE LET Keep(peer) == peer.addr \notin stale
           kept == SelectSeq(M.peers, Keep)
           removed_any == Len(kept) # Len(M.peers)
       IN [M EXCEPT !.peers = kept,
                    !.metrics = IF removed_any
                                THEN update_peer_counts(@, kept) ELSE @]

FindPeer(ps, addr) ==
  LET idx == { i \in 1..Len(ps) : ps[i].addr = addr } IN
  IF idx = {} THEN <<>>
  ELSE <<ps[CHOOSE i \in idx : \A j \in idx : i <= j]>>

send_to_peer(M, addr, msg) ==
  LET peer == FindPeer(M.peers, addr) IN
  IF peer # <<>>
  THEN LET s == send_to_peer_handle(M, peer[1], msg) IN
       [M |-> IF s.ret THEN s.M ELSE prune_stale_peers(s.M, {addr}),
        ret |-> s.ret]
  ELSE [M |-> M, ret |-> FALSE]

peer_node_type(ps, addr) ==
  LET peer == FindPeer(ps, addr) IN
  IF peer # <<>> THEN peer[1].node_type ELSE "unknown"

\* relay_loop without the Knots test.
RECURSIVE relay_loop_to_knots(_, _, _, _, _)
relay_loop_to_knots(snapshot, from_addr, msg, M, stale) ==
  IF snapshot = <<>> THEN [M |-> M, stale |-> stale]
  ELSE LET peer == Head(snapshot) rest == Tail(snapshot) IN
       IF peer.addr = from_addr
       THEN relay_loop_to_knots(rest, from_addr, msg, M, stale)
       ELSE LET s == send_to_peer_handle(M, peer, msg) IN
            relay_loop_to_knots(rest, from_addr, msg, s.M,
                                IF s.ret THEN stale ELSE stale \cup {peer.addr})

RECURSIVE relay_loop(_, _, _, _, _)
relay_loop(snapshot, from_addr, msg, M, stale) ==
  IF snapshot = <<>> THEN [M |-> M, stale |-> stale]
  ELSE LET peer == Head(snapshot) rest == Tail(snapshot) IN
       IF peer.addr = from_addr
       THEN relay_loop(rest, from_addr, msg, M, stale)
       ELSE IF peer.node_type = "knots"
       THEN relay_loop(rest, from_addr, msg, M, stale)
       ELSE LET s == send_to_peer_handle(M, peer, msg) IN
            relay_loop(rest, from_addr, msg, s.M,
                       IF s.ret THEN stale ELSE stale \cup {peer.addr})

relay_inv(M, from_addr, inv_list) ==
  LET r == relay_loop(M.peers, from_addr,
                      [kind |-> "Inv", list |-> inv_list], M, {})
  IN prune_stale_peers(r.M, r.stale)

\* ---------------------------------------------------------------- endpoint
Message(addr, message) == [type |-> "Message", addr |-> addr, message |-> message]
Disconnected(addr) == [type |-> "Disconnected", addr |-> addr]
Connected(addr) == [type |-> "Connected", addr |-> addr]

MsgTx(tx) == [kind |-> "Tx", tx |-> tx]
MsgInv(list) == [kind |-> "Inv", list |-> list]
MsgGetData(list) == [kind |-> "GetData", list |-> list]
MsgGetAddr == [kind |-> "GetAddr"]
MsgAddr(list) == [kind |-> "Addr", list |-> list]

\* Inv lists a remote peer announces.
InvLists == { <<Transaction(2)>>, <<WTx(21), Transaction(2)>>,
              <<Block(7), WitnessTransaction(22), WTx(22)>> }

\* Inventory lists a remote peer asks for.
GetDataLists == { <<Transaction(2)>>, <<WTx(22), Transaction(1)>>,
                  <<WTx(21), Block(7), WitnessTransaction(2)>> }

\* Peer::run, socket read branch: a frame decoded by process_buffer is
\* surfaced by Peer::handle_message as a Message event.
EndpointForward(c, message) ==
  /\ conns[c].ep = "running"
  /\ Len(events) < MaxEvents
  /\ events' = Append(events, Message(conns[c].addr, message))
  /\ Quiet
  /\ UNCHANGED << peers, pending_outbound, relay_state, metrics, db, conns,
                  filler, clock, announced >>

EndpointRecvTx(c, tx) ==
  /\ metrics.transactions_received < MaxTxReceived
  /\ EndpointForward(c, MsgTx(tx))

EndpointRecvInv(c, list) == EndpointForward(c, MsgInv(list))

EndpointRecvGetData(c, list) ==
  /\ metrics.transactions_relayed < MaxRelayed
  /\ EndpointForward(c, MsgGetData(list))

EndpointRecvGetAddr(c) ==
  /\ metrics.getaddr_messages_received < MaxGetAddr
  /\ EndpointForward(c, MsgGetAddr)

\* Peer::run, queue branch: one queued message is written to the socket.
EndpointWrite(c) ==
  /\ conns[c].ep = "running"
  /\ conns[c].qlen > 0
  /\ conns' = [conns EXCEPT ![c].qlen = @ - 1]
  /\ Quiet
  /\ UNCHANGED << peers, pending_outbound, relay_state, metrics, db, events,
                  filler, clock, announced >>

\* EndpointTerminate returning without the Disconnected event.
EndpointTerminate_silent(c) ==
  /\ conns[c].ep = "running"
  /\ Len(events) < MaxEvents
  /\ events' = events
  /\ conns' = [conns EXCEPT ![c] = IF @.task = "done" THEN OverConn("closed")
                                   ELSE [@ EXCEPT !.ep = "closed", !.qlen = 0]]
  /\ Quiet
  /\ UNCHANGED << peers, pending_outbound, relay_state, metrics, db,
                  filler, clock, announced >>

\* Peer::run: zero-byte read, read error, write error or ping error; the
\* endpoint emits Disconnected and returns, dropping the queue's receiver.
EndpointTerminate(c) ==
  /\ conns[c].ep = "running"
  /\ Len(events) < MaxEvents
  /\ events' = Append(events, Disconnected(conns[c].addr))
  /\ conns' = [conns EXCEPT ![c] = IF @.task = "done" THEN OverConn("closed")
                                   ELSE [@ EXCEPT !.ep = "closed", !.qlen = 0]]
  /\ Quiet
  /\ UNCHANGED << peers, pending_outbound, relay_state, metrics, db,
                  filler, clock, announced >>

\* ------------------------------------------------------- manager event loop
HeadIs(type) == events # <<>> /\ Head(events).type = type
HeadIsMessage(kind) == HeadIs("Message") /\ Head(events).message.kind = kind

\* ProcessDisconnected without the mark_failed on the store.
ProcessDisconnected_no_mark_failed ==
  /\ HeadIs("Disconnected")
  /\ LET addr == Head(events).addr
         Keep(p) == p.addr # addr
         kept == SelectSeq(peers, Keep)
     IN /\ peers' = kept
        /\ db' = db
        /\ metrics' = update_peer_counts(
                        [metrics EXCEPT !.total_disconnections = @ + 1], kept)
  /\ events' = Tail(events)
  /\ sent' = <<>>
  /\ handled' = Dispatch(Head(events), FALSE)
  /\ UNCHANGED << pending_outbound, relay_state, conns, filler, clock,
                  announced >>

\* ProcessDisconnected without the retain on the peer list.
ProcessDisconnected_keep_peers ==
  /\ HeadIs("Disconnected")
  /\ peers' = peers
  /\ db' = mark_failed(db, Head(events).addr)
  /\ metrics' = update_peer_counts(
                  [metrics EXCEPT !.total_disconnections = @ + 1], peers)
  /\ events' = Tail(events)
  /\ sent' = <<>>
  /\ handled' = Dispatch(Head(events), FALSE)
  /\ UNCHANGED << pending_outbound, relay_state, conns, filler, clock,
                  announced >>

\* PeerManager::run, PeerEvent::Disconnected
ProcessDisconnected ==
  /\ HeadIs("Disconnected")
  /\ LET addr == Head(events).addr
         Keep(p) == p.addr # addr
         kept == SelectSeq(peers, Keep)
     IN /\ peers' = kept
        /\ db' = mark_failed(db, addr)
        /\ metrics' = update_peer_counts(
                        [metrics EXCEPT !.total_disconnections = @ + 1], kept)
  /\ events' = Tail(events)
  /\ sent' = <<>>
  /\ handled' = Dispatch(Head(events), FALSE)
  /\ UNCHANGED << pending_outbound, relay_state, conns, filler, clock,
                  announced >>

\* PeerManager::run, PeerEvent::Connected
ProcessConnected ==
  /\ HeadIs("Connected")
  /\ metrics' = update_peer_counts(metrics, peers)
  /\ events' = Tail(events)
  /\ sent' = <<>>
  /\ handled' = Dispatch(Head(events), FALSE)
  /\ UNCHANGED << peers, pending_outbound, relay_state, db, conns, filler,
                  clock, announced >>

\* TxRelayState taking is_new from the wtxid's mark_seen.
TxRelayState_new_by_wtxid(rs, tx) ==
  LET txid == compute_txid(tx)
      wtxid == compute_wtxid(tx)
      r1 == complete_request(complete_request(rs, txid), wtxid)
      m1 == mark_seen(r1, txid)
      m2 == mark_seen(m1.rs, wtxid)
  IN [rs |-> IF m2.ret THEN insert_tx(m2.rs, txid, tx) ELSE m2.rs,
      is_new |-> m2.ret]

\* PeerManager::handle_message, Message::Tx: the relay-state part ...
TxRelayState(rs, tx) ==
  LET txid == compute_txid(tx)
      wtxid == compute_wtxid(tx)
      r1 == complete_request(complete_request(rs, txid), wtxid)
      m1 == mark_seen(r1, txid)
      m2 == mark_seen(m1.rs, wtxid)
  IN [rs |-> IF m1.ret THEN insert_tx(m2.rs, txid, tx) ELSE m2.rs,
      is_new |-> m1.ret]

\* ... and the whole arm.
HandleTx(from_addr, tx) ==
  LET source_node_type == peer_node_type(peers, from_addr)
      t == TxRelayState(relay_state, tx)
      counted == [metrics EXCEPT
                    !.transactions_received = @ + 1,
                    !.transactions_received_from[source_node_type] = @ + 1]
      M == IF t.is_new
           THEN relay_inv(Mgr(peers, conns, counted, <<>>), from_addr,
                          <<Transaction(compute_txid(tx))>>)
           ELSE Mgr(peers, conns, metrics, <<>>)
  IN /\ relay_state' = t.rs
     /\ peers' = M.peers
     /\ conns' = M.conns
     /\ metrics' = M.metrics
     /\ sent' = M.sent
     /\ handled' = Dispatch(Head(events), t.is_new)
     /\ announced' = IF t.is_new
                     THEN [announced EXCEPT ![compute_txid(tx)] = @ + 1]
                     ELSE announced

ProcessTx ==
  /\ HeadIsMessage("Tx")
  /\ HandleTx(Head(events).addr, Head(events).message.tx)
  /\ events' = Tail(events)
  /\ UNCHANGED << pending_outbound, db, filler, clock >>

\* inv_loop pushing every transaction entry, accepted or not.
RECURSIVE inv_loop_push_all(_, _, _, _)
inv_loop_push_all(inv_list, rs, now, getdata_items) ==
  IF inv_list = <<>> THEN [rs |-> rs, getdata_items |-> getdata_items]
  ELSE LET inv == Head(inv_list)
           key == inventory_key(inv)
       IN IF key = <<>>
          THEN inv_loop_push_all(Tail(inv_list), rs, now, getdata_items)
          ELSE inv_loop_push_all(Tail(inv_list),
                                 mark_requested(rs, key[1], now).rs, now,
                                 Append(getdata_items, inv))

\* PeerManager::handle_message, Message::Inv
RECURSIVE inv_loop(_, _, _, _)
inv_loop(inv_list, rs, now, getdata_items) ==
  IF inv_list = <<>> THEN [rs |-> rs, getdata_items |-> getdata_items]
  ELSE LET inv == Head(inv_list)
           key == inventory_key(inv)
       IN IF key = <<>>
          THEN inv_loop(Tail(inv_list), rs, now, getdata_items)
          ELSE LET m == mark_requested(rs, key[1], now) IN
               inv_loop(Tail(inv_list), m.rs, now,
                        IF m.ret THEN Append(getdata_items, inv)
                        ELSE getdata_items)

HandleInv(from_addr, inv_list) ==
  LET r == inv_loop(inv_list, relay_state, clock, <<>>)
      M0 == Mgr(peers, conns, metrics, <<>>)
      M == IF r.getdata_items # <<>>
           THEN send_to_peer(M0, from_addr, MsgGetData(r.getdata_items)).M
           ELSE M0
  IN /\ relay_state' = r.rs
     /\ peers' = M.peers
     /\ conns' = M.conns
     /\ metrics' = M.metrics
     /\ sent' = M.sent
     /\ handled' = [ event |-> Head(events), is_new |-> FALSE,
                     expired |-> DOMAIN relay_state.requested_txids \
                       DOMAIN cleanup_requested(relay_state, clock).requested_txids ]

ProcessInv ==
  /\ HeadIsMessage("Inv")
  /\ HandleInv(Head(events).addr, Head(events).message.list)
  /\ events' = Tail(events)
  /\ UNCHANGED << pending_outbound, db, filler, clock, announced >>

\* PeerManager::handle_message, Message::GetData
\* to_send looking every entry up by txid.
RECURSIVE to_send_by_txid(_, _)
to_send_by_txid(rs, requests) ==
  IF requests = <<>> THEN <<>>
  ELSE LET inv == Head(requests)
           found == IF inv.kind \in {"Transaction", "WitnessTransaction", "WTx"}
                    THEN get_tx(rs, inv.hash) ELSE <<>>
       IN found \o to_send_by_txid(rs, Tail(requests))

\* The filter_map over the requests: the cached transactions to send.
RECURSIVE to_send(_, _)
to_send(rs, requests) ==
  IF requests = <<>> THEN <<>>
  ELSE LET inv == Head(requests)
           found == CASE inv.kind = "Transaction" -> get_tx(rs, inv.hash)
                      [] inv.kind = "WitnessTransaction" -> get_tx(rs, inv.hash)
                      [] inv.kind = "WTx" -> get_tx_by_wtxid(rs, inv.hash)
                      [] OTHER -> <<>>
       IN found \o to_send(rs, Tail(requests))

\* The loop over to_send, counting the sends that succeeded.
RECURSIVE getdata_loop(_, _, _, _)
getdata_loop(txs, from_addr, M, sent_count) ==
  IF txs = <<>> THEN [M |-> M, sent |-> sent_count]
  ELSE LET s == send_to_peer(M, from_addr, MsgTx(Head(txs))) IN
       getdata_loop(Tail(txs), from_addr, s.M,
                    IF s.ret THEN sent_count + 1 ELSE sent_count)

HandleGetData(from_addr, requests) ==
  LET r == getdata_loop(to_send(relay_state, requests), from_addr,
                        Mgr(peers, conns, metrics, <<>>), 0)
  IN /\ peers' = r.M.peers
     /\ conns' = r.M.conns
     /\ metrics' = IF r.sent > 0
                   THEN [r.M.metrics EXCEPT !.transactions_relayed = @ + r.sent]
                   ELSE r.M.metrics
     /\ sent' = r.M.sent
     /\ handled' = Dispatch(Head(events), FALSE)

ProcessGetData ==
  /\ HeadIsMessage("GetData")
  /\ HandleGetData(Head(events).addr, Head(events).message.list)
  /\ events' = Tail(events)
  /\ UNCHANGED << pending_outbound, relay_state, db, filler, clock,
                  announced >>

\* PeerManager::handle_message, Message::GetAddr
\* Every order candidates.shuffle(rng) may leave the vector in.
shuffle(v) ==
  { [i \in 1..Len(v) |-> v[p[i]]] : p \in Perms(1..Len(v)) }

\* Vec::truncate left out.
truncate_none(v, len) == v

\* Vec::truncate
truncate(v, len) == IF len < Len(v) THEN SubSeq(v, 1, len) ELSE v

AddressEntry(addr, timestamp) ==
  [ services |-> 0, addr |-> addr, timestamp |-> timestamp ]

\* response_addrs without the filter on the requester.
response_addrs_unfiltered(ps, from_addr, now) ==
  LET candidates == [i \in 1..Len(ps) |-> ps[i].addr]
  IN { LET cut == truncate(shuffled, GETADDR_RESPONSE_LIMIT)
       IN [i \in 1..Len(cut) |-> AddressEntry(cut[i], now)] :
       shuffled \in shuffle(candidates) }

\* The responses the arm may build for a requester.
response_addrs(ps, from_addr, now) ==
  LET NotFrom(peer) == peer.addr # from_addr
      others == SelectSeq(ps, NotFrom)
      candidates == [i \in 1..Len(others) |-> others[i].addr]
  IN { LET cut == truncate(shuffled, GETADDR_RESPONSE_LIMIT)
       IN [i \in 1..Len(cut) |-> AddressEntry(cut[i], now)] :
       shuffled \in shuffle(candidates) }

HandleGetAddr(from_addr) ==
  \E response \in response_addrs(peers, from_addr, clock) :
    LET counted == [metrics EXCEPT !.getaddr_messages_received = @ + 1]
        M0 == Mgr(peers, conns, counted, <<>>)
        M == IF response # <<>>
             THEN send_to_peer(M0, from_addr, MsgAddr(response)).M
             ELSE M0
    IN /\ peers' = M.peers
       /\ conns' = M.conns
       /\ metrics' = M.metrics
       /\ sent' = M.sent
       /\ handled' = [ event |-> Head(events), is_new |-> FALSE,
                       response_addrs |-> response ]

ProcessGetAddr ==
  /\ HeadIsMessage("GetAddr")
  /\ HandleGetAddr(Head(events).addr)
  /\ events' = Tail(events)
  /\ UNCHANGED << pending_outbound, relay_state, db, filler, clock,
                  announced >>

\* Time passes.
Tick ==
  /\ clock < MaxClock
  /\ clock' = clock + 1
  /\ Quiet
  /\ UNCHANGED << peers, pending_outbound, relay_state, metrics, db, events,
                  conns, filler, announced >>

\* ------------------------------------------------------------ relay engine
\* The relay engine is explored from the state in which the nodes at
\* EstablishedAddrs have completed their handshakes, were adopted and their
\* Connected events were processed.
EstablishedAddrs == <<"a1", "a2", "a3">>

RunningConn(a) ==
  [ task |-> "done", ep |-> "running", addr |-> a, dir |-> "out",
    node_type |-> from_user_agent(AgentOf(a)), qlen |-> 0 ]

Established(addrs) ==
  LET cs == [c \in ConnIds |-> IF c <= Len(addrs)
                                THEN RunningConn(addrs[c])
                                ELSE FreeConn]
      ps == [i \in 1..Len(addrs) |-> PeerHandle(i, cs)]
  IN /\ conns = cs
     /\ peers = ps
     /\ pending_outbound = {}
     /\ relay_state = RelayStateDefault
     /\ metrics = update_peer_counts(
                    [MetricsNew EXCEPT !.total_connections = Len(ps)], ps)
     /\ db = [a \in {addrs[i] : i \in 1..Len(addrs)} |->
                NodeInfo(from_user_agent(AgentOf(a)), 0, 0, TRUE, <<AgentOf(a)>>)]
     /\ events = <<>>
     /\ filler = FillerIdle
     /\ clock = 0
     /\ sent = <<>>
     /\ handled = NoDispatch
     /\ announced = [t \in Txids |-> 0]

InitRelay == Established(EstablishedAddrs)

NextRelay ==
  \/ \E c \in ConnIds, tx \in Txs : EndpointRecvTx(c, tx)
  \/ \E c \in ConnIds : EndpointWrite(c)
  \/ \E c \in ConnIds : EndpointTerminate(c)
  \/ ProcessTx
  \/ ProcessDisconnected

SpecRelay == InitRelay /\ [][NextRelay]_vars

\* ------------------------------------------------- announcements and time
\* The same established peers, announcing and delivering transactions
\* while time passes.
\* The peers that announce.
Announcers == <<"a1", "a2">>

InitInv == Established(Announcers)

\* The transactions the announcements are about.
InvTxs == { tx \in Txs : compute_txid(tx) = 2 }

NextInv ==
  \/ \E c \in ConnIds, list \in InvLists : EndpointRecvInv(c, list)
  \/ \E c \in ConnIds, tx \in InvTxs : EndpointRecvTx(c, tx)
  \/ \E c \in ConnIds : EndpointWrite(c)
  \/ ProcessInv
  \/ ProcessTx
  \/ Tick

SpecInv == InitInv /\ [][NextInv]_vars

\* ------------------------------------------------------ witness variants
\* The established peers deliver one transaction body under several
\* witnesses.
TxVariants == InvTxs \cup { [body |-> 2, wit |-> 3] }

NextVariants ==
  \/ \E c \in ConnIds, tx \in TxVariants : EndpointRecvTx(c, tx)
  \/ \E c \in ConnIds : EndpointWrite(c)
  \/ ProcessTx

SpecVariants == InitInv /\ [][NextVariants]_vars

\* ------------------------------------------------------ address solicitation
\* The established peers ask for addresses while peers disconnect.
NextGetAddr ==
  \/ \E c \in ConnIds : EndpointRecvGetAddr(c)
  \/ \E c \in ConnIds : EndpointWrite(c)
  \/ \E c \in ConnIds : EndpointTerminate(c)
  \/ ProcessGetAddr
  \/ ProcessDisconnected

SpecGetAddr == InitRelay /\ [][NextGetAddr]_vars

\* ------------------------------------------------------------- discovery
DiscoveryTake == 1    \* discovery.rs:89 (take(10), scaled)
PruneAge == 2         \* discovery.rs:97 (7 days, scaled to ticks)

\* The loop over the sampled handles: the result of each send is dropped.
RECURSIVE discovery_loop(_, _)
discovery_loop(handles, M) ==
  IF handles = <<>> THEN M
  ELSE discovery_loop(Tail(handles),
                      send_to_peer_handle(M, Head(handles), MsgGetAddr).M)

\* DiscoveryService::run_discovery_cycle: GetAddr to a random sample of the
\* peer list, then the prune of the store; no stored last_seen precedes a
\* cutoff that lies before the first instant.  The counters discovery_runs
\* and nodes_pruned, which nothing reads, are left out.
DiscoveryCycle ==
  \E shuffled \in shuffle(peers) :
    LET handles == Prefix(shuffled, DiscoveryTake)
        M == discovery_loop(handles, Mgr(peers, conns, metrics, <<>>))
        cutoff == clock - PruneAge
    IN /\ conns' = M.conns
       /\ sent' = M.sent
       /\ db' = IF cutoff < 0 THEN db ELSE prune_old(db, cutoff).db
       /\ handled' = [ event |-> [type |-> "Discovery"], is_new |-> FALSE,
                       handles |-> handles ]
       /\ UNCHANGED << peers, pending_outbound, relay_state, metrics, events,
                       filler, clock, announced >>

\* ------------------------------------------------------------ every send path
\* Two established peers exchange transactions, announcements and requests
\* with the router while discovery cycles run and peers disconnect.
\* The peers go on sending while the counters have room.
ExchangeRoom ==
  metrics.transactions_received + metrics.getaddr_messages_received
    + metrics.transactions_relayed < MaxExchange

NextExchange ==
  \/ \E c \in ConnIds, tx \in InvTxs : ExchangeRoom /\ EndpointRecvTx(c, tx)
  \/ \E c \in ConnIds : EndpointRecvInv(c, <<WTx(21), Transaction(2)>>)
  \/ \E c \in ConnIds, list \in GetDataLists :
       ExchangeRoom /\ EndpointRecvGetData(c, list)
  \/ \E c \in ConnIds : ExchangeRoom /\ EndpointRecvGetAddr(c)
  \/ \E c \in ConnIds : EndpointWrite(c)
  \/ \E c \in ConnIds : EndpointTerminate(c)
  \/ ProcessTx
  \/ ProcessInv
  \/ ProcessGetData
  \/ ProcessGetAddr
  \/ ProcessDisconnected
  \/ DiscoveryCycle

SpecExchange == InitInv /\ [][NextExchange]_vars

\* --------------------------------------------- connections: dial and accept
Min(a, b) == IF a < b THEN a ELSE b
PeerAddrs(ps) == { ps[i].addr : i \in 1..Len(ps) }

\* The next connection the process creates.
HasFreeConn == \E c \in ConnIds : conns[c].task = "none"
NewConn == CHOOSE c \in ConnIds :
             /\ conns[c].task = "none"
             /\ \A d \in ConnIds : conns[d].task = "none" => c <= d

\* AttemptBudget without the clamp to MAX_CONNECT_ATTEMPTS_PER_TICK.
AttemptBudget_unclamped(current_count, target) ==
  LET to_connect == target - current_count
  IN to_connect + (to_connect \div 2)

\* The attempts of a tick that finds current_count < target peers.
AttemptBudget(current_count, target) ==
  LET to_connect == target - current_count
      desired_attempts == to_connect + (to_connect \div 2)
  IN Min(desired_attempts, MAX_CONNECT_ATTEMPTS_PER_TICK)

\* Outbound filler: interval.tick() returns and the peer count is read.
FillerTick ==
  /\ filler.pc = "idle"
  /\ LET current_count == Len(peers)
         target == TargetOf(filler)
     IN filler' =
          IF current_count < target
          THEN [filler EXCEPT
                  !.pc = "connected_addrs",
                  !.attempt_budget = AttemptBudget(current_count, target)]
          ELSE filler
  /\ Quiet
  /\ UNCHANGED << peers, pending_outbound, relay_state, metrics, db, events,
                  conns, clock, announced >>

\* connected_addrs: the addresses of the peer list under its read lock.
FillerReadPeers ==
  /\ filler.pc = "connected_addrs"
  /\ filler' = [filler EXCEPT !.connected_addrs = PeerAddrs(peers),
                              !.pc = "pending_addrs"]
  /\ Quiet
  /\ UNCHANGED << peers, pending_outbound, relay_state, metrics, db, events,
                  conns, clock, announced >>

\* pending_addrs: a clone of pending_outbound under its read lock.
FillerReadPending ==
  /\ filler.pc = "pending_addrs"
  /\ filler' = [filler EXCEPT !.pending_addrs = pending_outbound,
                              !.pc = "query"]
  /\ Quiet
  /\ UNCHANGED << peers, pending_outbound, relay_state, metrics, db, events,
                  conns, clock, announced >>

\* The loop over the candidates, which touches no shared state until it
\* launches: the addresses it launches a dial to, in order.
RECURSIVE walk(_, _, _, _, _)
walk(addrs, connected_addrs, pending_addrs, attempt_budget, attempted) ==
  IF addrs = <<>> THEN <<>>
  ELSE LET addr == Head(addrs)
           rest == Tail(addrs)
       IN IF is_ipv6(addr)
          THEN walk(rest, connected_addrs, pending_addrs, attempt_budget,
                    attempted)
          ELSE IF addr \in connected_addrs
          THEN walk(rest, connected_addrs, pending_addrs, attempt_budget,
                    attempted)
          ELSE IF addr \in pending_addrs
          THEN walk(rest, connected_addrs, pending_addrs, attempt_budget,
                    attempted)
          ELSE IF attempted >= attempt_budget
          THEN <<>>
          ELSE <<addr>> \o walk(rest, connected_addrs, pending_addrs,
                                attempt_budget, attempted + 1)

\* The store is queried; from here on filler.addrs holds the addresses the
\* loop is still to launch.
FillerQuery ==
  /\ filler.pc = "query"
  /\ \E addrs \in get_knots_excluding(db, filler.attempt_budget * 4) :
       LET launches == walk(addrs, filler.connected_addrs,
                            filler.pending_addrs, filler.attempt_budget, 0)
       IN /\ filler' = IF launches = <<>> THEN FillerRest(filler)
                       ELSE [FillerRest(filler) EXCEPT !.pc = "launch",
                                                       !.addrs = launches]
          /\ handled' = [ event |-> [type |-> "Query"], is_new |-> FALSE,
                          addrs |-> addrs ]
  /\ sent' = <<>>
  /\ UNCHANGED << peers, pending_outbound, relay_state, metrics, db, events,
                  conns, clock, announced >>

\* A connection whose dial or accept task has just been spawned.
NewTask(addr, dir) ==
  [ task |-> "handshake", ep |-> "none", addr |-> addr, dir |-> dir,
    node_type |-> "unknown", qlen |-> 0 ]

\* The address goes into pending_outbound and its dial task is spawned.
FillerLaunch ==
  /\ filler.pc = "launch"
  /\ HasFreeConn
  /\ LET addr == Head(filler.addrs) IN
       /\ pending_outbound' = pending_outbound \cup {addr}
       /\ conns' = [conns EXCEPT ![NewConn] = NewTask(addr, "out")]
  /\ filler' = IF Tail(filler.addrs) = <<>> THEN FillerRest(filler)
               ELSE [filler EXCEPT !.addrs = Tail(@)]
  /\ Quiet
  /\ UNCHANGED << peers, relay_state, metrics, db, events, clock, announced >>

\* The remote addresses inbound connections come from.
InboundAddrs == {"a1"}

\* Inbound listener: accept() returns a stream and its task is spawned.
InboundAccept(addr) ==
  /\ HasFreeConn
  /\ conns' = [conns EXCEPT ![NewConn] = NewTask(addr, "in")]
  /\ Quiet
  /\ UNCHANGED << peers, pending_outbound, relay_state, metrics, db, events,
                  filler, clock, announced >>

\* Peer::handshake completes: the peer is classified, its row is upserted
\* and Connected is emitted; Peer::connect / Peer::accept returns the peer.
HandshakeOk(c) ==
  /\ conns[c].task = "handshake"
  /\ Len(events) < MaxEvents
  /\ LET node_type == from_user_agent(AgentOf(conns[c].addr)) IN
       /\ conns' = [conns EXCEPT ![c].node_type = node_type,
                                 ![c].task = "ready"]
       /\ db' = insert_or_update(db, conns[c].addr,
                                 NodeInfo(node_type, clock, 0, TRUE,
                                          <<AgentOf(conns[c].addr)>>)).db
  /\ events' = Append(events, Connected(conns[c].addr))
  /\ Quiet
  /\ UNCHANGED << peers, pending_outbound, relay_state, metrics, filler,
                  clock, announced >>

\* A timeout that never expires and a handshake that never fails.
HandshakeFail_never(c) ==
  /\ conns[c].task = "handshake"
  /\ UNCHANGED vars

\* The connect or the handshake fails, or the timeout around it expires.
HandshakeFail(c) ==
  /\ conns[c].task = "handshake"
  /\ IF conns[c].dir = "out"
     THEN /\ db' = mark_failed(db, conns[c].addr)
          /\ conns' = [conns EXCEPT ![c].task = "resolving"]
     ELSE /\ db' = db
          /\ conns' = [conns EXCEPT ![c] = OverConn("closed")]
  /\ Quiet
  /\ UNCHANGED << peers, pending_outbound, relay_state, metrics, events,
                  filler, clock, announced >>

\* adopt without the test for a handle of the same address.
adopt_unchecked(ps, handle) ==
  [peers |-> Append(ps, handle), adopted |-> TRUE]

\* adopt putting the new handle in the place of one of the same address.
adopt_replacing(ps, handle) ==
  [peers |-> Append(SelectSeq(ps, LAMBDA p : p.addr # handle.addr), handle),
   adopted |-> TRUE]

\* Under the write lock of the peer list: push unless the address is there.
adopt(ps, handle) ==
  IF \E i \in 1..Len(ps) : ps[i].addr = handle.addr
  THEN [peers |-> ps, adopted |-> FALSE]
  ELSE [peers |-> Append(ps, handle), adopted |-> TRUE]

\* What adoption does to the lists and counters; an adopted peer is run, a
\* duplicate is dropped.
Adoption(c, next_task) ==
  LET r == adopt(peers, PeerHandle(c, conns)) IN
    /\ peers' = r.peers
    /\ conns' = [conns EXCEPT ![c] =
                   IF r.adopted
                   THEN [@ EXCEPT !.ep = "running", !.task = next_task]
                   ELSE IF next_task = "done" THEN OverConn("dropped")
                   ELSE [@ EXCEPT !.ep = "dropped", !.task = next_task]]
    /\ metrics' = IF r.adopted
                  THEN [metrics EXCEPT !.total_connections = @ + 1]
                  ELSE metrics
    /\ Quiet
    /\ UNCHANGED << pending_outbound, relay_state, db, events, filler, clock,
                    announced >>

AdoptInbound(c) ==
  /\ conns[c].task = "ready"
  /\ conns[c].dir = "in"
  /\ Adoption(c, "done")

AdoptOutbound(c) ==
  /\ conns[c].task = "ready"
  /\ conns[c].dir = "out"
  /\ Adoption(c, "resolving")

\* The last statement of a dial task without its removal.
pending_remove_never(pending, addr) == pending

\* The last statement of a dial task.
pending_remove(pending, addr) == pending \ {addr}

ResolveDial(c) ==
  /\ conns[c].task = "resolving"
  /\ pending_outbound' = pending_remove(pending_outbound, conns[c].addr)
  /\ conns' = [conns EXCEPT ![c] =
                 IF @.ep = "running" THEN [@ EXCEPT !.task = "done"]
                 ELSE OverConn(IF @.ep = "dropped" THEN "dropped" ELSE "closed")]
  /\ Quiet
  /\ UNCHANGED << peers, relay_state, metrics, db, events, filler, clock,
                  announced >>

\* The store after DNS seeding and gossip: rows of unknown type.
SeededDb(addrs) ==
  [a \in addrs |-> NodeInfo("unknown", 0, 0, TRUE, <<>>)]

\* The process after construction, before any connection, with a store.
Fresh(d) ==
  /\ conns = [c \in ConnIds |-> FreeConn]
  /\ peers = <<>>
  /\ pending_outbound = {}
  /\ relay_state = RelayStateDefault
  /\ metrics = MetricsNew
  /\ db = d
  /\ events = <<>>
  /\ filler = FillerIdle
  /\ clock = 0
  /\ sent = <<>>
  /\ handled = NoDispatch
  /\ announced = [t \in Txids |-> 0]

\* The addresses the store knows while peers come and go.
DialAddrs == {"a1", "a3"}

InitDial == Fresh(SeededDb(DialAddrs \cup Addrs6))

\* Tasks spawned so far.
Spawned == Cardinality({ c \in ConnIds : conns[c].task # "none" })

\* Launch and accept while tasks may still be spawned.
DialLaunch == Spawned < MaxTasks /\ FillerLaunch
DialAccept(addr) == Spawned < MaxTasks /\ InboundAccept(addr)

\* One step of the task of connection c.
TaskStep(c) ==
  \/ HandshakeOk(c)
  \/ HandshakeFail(c)
  \/ AdoptInbound(c)
  \/ AdoptOutbound(c)
  \/ ResolveDial(c)

NextDial ==
  \/ FillerTick
  \/ FillerReadPeers
  \/ FillerReadPending
  \/ FillerQuery
  \/ DialLaunch
  \/ \E addr \in InboundAddrs : DialAccept(addr)
  \/ \E c \in ConnIds : TaskStep(c)
  \/ \E c \in ConnIds : EndpointTerminate(c)
  \/ ProcessConnected
  \/ ProcessDisconnected

SpecDial == InitDial /\ [][NextDial]_vars

\* ------------------------------------------------- the life of a connection
\* Inbound connections are accepted, adopted and run until their endpoints
\* return, while the event loop takes the events they emit.
NextLifecycle ==
  \/ \E addr \in Addrs : DialAccept(addr)
  \/ \E c \in ConnIds : HandshakeOk(c)
  \/ \E c \in ConnIds : AdoptInbound(c)
  \/ \E c \in ConnIds : EndpointTerminate(c)
  \/ ProcessConnected
  \/ ProcessDisconnected

SpecLifecycle == InitDial /\ [][NextLifecycle]_vars

\* The event loop is one task that the runtime keeps scheduling: it takes
\* the event at the head of the channel whenever there is one.
SpecLifecycleFair ==
  SpecLifecycle /\ WF_vars(ProcessConnected \/ ProcessDisconnected)

\* ------------------------------------------------------- the dial tasks alone
\* One step of the dial task of connection c.
OutStep(c) ==
  \/ HandshakeOk(c)
  \/ HandshakeFail(c)
  \/ AdoptOutbound(c)
  \/ ResolveDial(c)

\* The store holds one IPv4 candidate, or two.
InitPending ==
  \E seeds \in { {"a1"}, DialAddrs } : Fresh(SeededDb(seeds \cup Addrs6))

\* The filler and its dial tasks, with no inbound connection and every
\* endpoint staying up.
NextPending ==
  \/ FillerTick
  \/ FillerReadPeers
  \/ FillerReadPending
  \/ FillerQuery
  \/ DialLaunch
  \/ \E c \in ConnIds : OutStep(c)
  \/ ProcessConnected

SpecPending == InitPending /\ [][NextPending]_vars

\* Every spawned dial task is scheduled, and the timeout around its connect
\* and handshake bounds their duration.
SpecPendingFair == SpecPending /\ \A c \in ConnIds : WF_vars(OutStep(c))

\* ------------------------------------------------------------------ gossip
\* An address of a private range, which is_public_addr rejects; every other
\* address of the model, the IPv6 one included, is public.
PrivateAddrs == {"p1"}
is_public_addr(addr) == addr \notin PrivateAddrs

MsgAddrV2(list) == [kind |-> "AddrV2", list |-> list]
Addresses(addr, addrs) == [type |-> "Addresses", addr |-> addr, addrs |-> addrs]

\* The entry lists a remote peer gossips.
AddrLists ==
  { << AddressEntry("a2", 0), AddressEntry("a3", 0), AddressEntry("p1", 0),
       AddressEntry("a4", 0) >> }

\* Peer::handle_message: an Addr is surfaced as an Addresses event ...
EndpointRecvAddr(c, list) ==
  /\ conns[c].ep = "running"
  /\ Len(events) < MaxEvents
  /\ metrics.addr_messages_received < MaxAddrMsgs
  /\ events' = Append(events, Addresses(conns[c].addr, list))
  /\ Quiet
  /\ UNCHANGED << peers, pending_outbound, relay_state, metrics, db, conns,
                  filler, clock, announced >>

\* ... and an AddrV2, like every message but Ping and Addr, as a Message.
EndpointRecvAddrV2(c, list) ==
  /\ metrics.addr_messages_received < MaxAddrMsgs
  /\ EndpointForward(c, MsgAddrV2(list))

\* handle_new_addresses keeping the row of an address the store knows.
RECURSIVE handle_new_addresses_keep_known(_, _, _)
handle_new_addresses_keep_known(d, addrs, now) ==
  IF addrs = <<>> THEN d
  ELSE LET entry == Head(addrs) IN
       IF ~is_public_addr(entry.addr) \/ entry.addr \in DOMAIN d
       THEN handle_new_addresses_keep_known(d, Tail(addrs), now)
       ELSE handle_new_addresses_keep_known(
              insert_or_update(d, entry.addr,
                               NodeInfo("unknown", now, 0, TRUE, <<>>)).db,
              Tail(addrs), now)

\* DiscoveryService::handle_new_addresses: the store after the loop.  The
\* counter nodes_discovered, which nothing reads, is left out.
RECURSIVE handle_new_addresses(_, _, _)
handle_new_addresses(d, addrs, now) ==
  IF addrs = <<>> THEN d
  ELSE LET entry == Head(addrs) IN
       IF ~is_public_addr(entry.addr)
       THEN handle_new_addresses(d, Tail(addrs), now)
       ELSE handle_new_addresses(
              insert_or_update(d, entry.addr,
                               NodeInfo("unknown", now, 0, TRUE, <<>>)).db,
              Tail(addrs), now)

\* PeerManager::run, PeerEvent::Addresses, with the discovery service that
\* main sets when enable_discovery holds (the default).
ProcessAddresses ==
  /\ HeadIs("Addresses")
  /\ metrics' = [metrics EXCEPT !.addr_messages_received = @ + 1]
  /\ db' = handle_new_addresses(db, Head(events).addrs, clock)
  /\ events' = Tail(events)
  /\ sent' = <<>>
  /\ handled' = Dispatch(Head(events), FALSE)
  /\ UNCHANGED << peers, pending_outbound, relay_state, conns, filler, clock,
                  announced >>

\* PeerManager::handle_message, the arm of every message that is not Inv,
\* Tx, GetData or GetAddr: nothing is done.
ProcessOther ==
  /\ HeadIs("Message")
  /\ Head(events).message.kind \notin {"Inv", "Tx", "GetData", "GetAddr"}
  /\ events' = Tail(events)
  /\ sent' = <<>>
  /\ handled' = Dispatch(Head(events), FALSE)
  /\ UNCHANGED << peers, pending_outbound, relay_state, metrics, db, conns,
                  filler, clock, announced >>

\* A Core peer is connected and the store holds, from an earlier handshake,
\* the row of a Knots node, and a seeded IPv6 row; the router was started
\* with the target of the model or with one far above the clamp of the
\* filler.
InitGossip ==
  /\ conns = [c \in ConnIds |-> IF c = 1 THEN RunningConn("a1") ELSE FreeConn]
  /\ peers = << PeerHandle(1, conns) >>
  /\ pending_outbound = {}
  /\ relay_state = RelayStateDefault
  /\ metrics = update_peer_counts(
                 [MetricsNew EXCEPT !.total_connections = 1], peers)
  /\ db = [a \in {"a1", "a2"} \cup Addrs6 |->
             IF is_ipv6(a) THEN NodeInfo("unknown", 0, 0, TRUE, <<>>)
             ELSE NodeInfo(from_user_agent(AgentOf(a)), 0, 0, TRUE,
                           <<AgentOf(a)>>)]
  /\ events = <<>>
  /\ \E target \in {target_peers, 200} :
       filler = [ pc |-> "idle", attempt_budget |-> 0, connected_addrs |-> {},
                  pending_addrs |-> {}, addrs |-> <<>>, target |-> target ]
  /\ clock = 1
  /\ sent = <<>>
  /\ handled = NoDispatch
  /\ announced = [t \in Txids |-> 0]

NextGossip ==
  \/ \E c \in ConnIds, list \in AddrLists : EndpointRecvAddr(c, list)
  \/ \E c \in ConnIds, list \in AddrLists : EndpointRecvAddrV2(c, list)
  \/ ProcessAddresses
  \/ ProcessOther
  \/ FillerTick
  \/ FillerReadPeers
  \/ FillerReadPending
  \/ FillerQuery
  \/ DialLaunch
  \/ \E c \in ConnIds : HandshakeOk(c)
  \/ \E c \in ConnIds : AdoptOutbound(c)
  \/ \E c \in ConnIds : ResolveDial(c)
  \/ ProcessConnected

SpecGossip == InitGossip /\ [][NextGossip]_vars

\* ---------------------------------------------------- peers come and go
\* One established peer announces, gossips and may be reaped while its
\* endpoint runs on; the filler dials what the store offers, inbound
\* connections arrive, discovery cycles run, endpoints return.

\* What the established peer announces, and what it has gossiped.
ChurnLists == { <<Transaction(2)>> }
ChurnAddrs == << AddressEntry("a1", 0), AddressEntry("p1", 0) >>

\* The peer is established and its gossip waits in the channel.
InitChurn ==
  /\ conns = [c \in ConnIds |-> IF c = 1 THEN RunningConn("a1") ELSE FreeConn]
  /\ peers = << PeerHandle(1, conns) >>
  /\ pending_outbound = {}
  /\ relay_state = RelayStateDefault
  /\ metrics = update_peer_counts(
                 [MetricsNew EXCEPT !.total_connections = 1], peers)
  /\ db = [a \in {"a1"} |->
             NodeInfo(from_user_agent(AgentOf(a)), 0, 0, TRUE, <<AgentOf(a)>>)]
  /\ events = << Addresses("a1", ChurnAddrs) >>
  /\ filler = FillerIdle
  /\ clock = 0
  /\ sent = <<>>
  /\ handled = NoDispatch
  /\ announced = [t \in Txids |-> 0]

NextChurn ==
  \/ \E c \in ConnIds, list \in ChurnLists : EndpointRecvInv(c, list)
  \/ \E c \in ConnIds : EndpointWrite(c)
  \/ \E c \in ConnIds : EndpointTerminate(c)
  \/ ProcessInv
  \/ ProcessAddresses
  \/ ProcessConnected
  \/ ProcessDisconnected
  \/ DiscoveryCycle
  \/ FillerTick
  \/ FillerReadPeers
  \/ FillerReadPending
  \/ FillerQuery
  \/ DialLaunch
  \/ \E addr \in InboundAddrs : DialAccept(addr)
  \/ \E c \in ConnIds : HandshakeOk(c)
  \/ \E c \in ConnIds : AdoptInbound(c)
  \/ \E c \in ConnIds : AdoptOutbound(c)
  \/ \E c \in ConnIds : ResolveDial(c)

SpecChurn == InitChurn /\ [][NextChurn]_vars

\* --------------------------------------------------- the address store alone
\* The calls on AddressDb about the addresses StoreAddrs, on a store file
\* that holds the row of a Core peer of an earlier run.
StoreAddrs == {"a2", "a3"}
StoredDb == [a \in {"a1"} |-> NodeInfo("core", 0, 0, TRUE, <<AgentOf(a)>>)]

\* What a call on the store leaves in handled.
StoreCall(op, arg, ret) ==
  [ event |-> [type |-> "Store", op |-> op, arg |-> arg], is_new |-> FALSE,
    ret |-> ret ]

StoreStep(call) ==
  /\ handled' = call
  /\ sent' = <<>>
  /\ UNCHANGED << peers, pending_outbound, relay_state, metrics, events,
                  conns, filler, clock, announced >>

\* DiscoveryService::store_socket_addrs / handle_new_addresses, one address
StoreDiscovered(addr) ==
  LET r == insert_or_update(db, addr, NodeInfo("unknown", clock, 0, TRUE, <<>>)) IN
    /\ db' = r.db
    /\ StoreStep(StoreCall("insert_or_update", addr, r.ret))

\* Peer::handshake, the upsert of the classified peer
StoreHandshaken(addr) ==
  LET node_type == from_user_agent(AgentOf(addr))
      r == insert_or_update(db, addr,
                            NodeInfo(node_type, clock, 0, TRUE, <<AgentOf(addr)>>))
  IN /\ db' = r.db
     /\ StoreStep(StoreCall("insert_or_update", addr, r.ret))

StoreMarkFailed(addr) ==
  /\ addr \in DOMAIN db => db[addr].connection_failures < MaxFailures
  /\ db' = mark_failed(db, addr)
  /\ StoreStep(StoreCall("mark_failed", addr, TRUE))

StoreMarkConnected(addr) ==
  /\ db' = mark_connected(db, addr)
  /\ StoreStep(StoreCall("mark_connected", addr, TRUE))

StorePruneOld(before) ==
  LET r == prune_old(db, before) IN
    /\ db' = r.db
    /\ StoreStep(StoreCall("prune_old", before, r.ret))

StoreQuery(limit) ==
  \E addrs \in get_knots_excluding(db, limit) :
    /\ db' = db
    /\ StoreStep(StoreCall("get_knots_excluding", limit, addrs))

StoreTick ==
  /\ clock < MaxClock
  /\ clock' = clock + 1
  /\ handled' = NoDispatch
  /\ sent' = <<>>
  /\ UNCHANGED << peers, pending_outbound, relay_state, metrics, db, events,
                  conns, filler, announced >>

InitStore == Fresh(StoredDb)

NextStore ==
  \/ \E addr \in StoreAddrs : StoreDiscovered(addr)
  \/ \E addr \in StoreAddrs : StoreHandshaken(addr)
  \/ \E addr \in StoreAddrs : StoreMarkFailed(addr)
  \/ \E addr \in StoreAddrs : StoreMarkConnected(addr)
  \/ \E before \in 0..MaxClock : StorePruneOld(before)
  \/ \E limit \in 0..Cardinality(StoreAddrs) + 1 : StoreQuery(limit)
  \/ StoreTick

SpecStore == InitStore /\ [][NextStore]_vars

\* The calls the program itself makes on the store: the upserts of
\* discovery and of the handshake, mark_failed and prune_old.
NextStoreWrites ==
  \/ \E addr \in StoreAddrs : StoreDiscovered(addr)
  \/ \E addr \in StoreAddrs : StoreHandshaken(addr)
  \/ \E addr \in StoreAddrs : StoreMarkFailed(addr)
  \/ \E before \in 0..MaxClock : StorePruneOld(before)
  \/ StoreTick

SpecStoreWrites == InitStore /\ [][NextStoreWrites]_vars

\* ------------------------------------------------------------- wire codec
\* A frame in small: a header of HeaderLen bytes (1 magic, 1 command, 2 of
\* little-endian payload length, 1 checksum; 4 + 12 + 4 + 4 in the source)
\* and the payload.
HeaderLen == 5
LengthAt == 3
MAGIC == 249
ReadBufLen == 12

MsgVerack == [kind |-> "Verack"]
MsgPing(nonce) == [kind |-> "Ping", nonce |-> nonce]
MsgPong(nonce) == [kind |-> "Pong", nonce |-> nonce]
MsgFeeFilter(feerate) == [kind |-> "FeeFilter", feerate |-> feerate]

\* The messages a remote peer frames.
WireMessages == { MsgVerack, MsgGetAddr, MsgPing(7), MsgFeeFilter(249) }

Command(msg) ==
  CASE msg.kind = "Verack" -> 1 [] msg.kind = "GetAddr" -> 2
    [] msg.kind = "Ping" -> 3 [] msg.kind = "Pong" -> 4
    [] msg.kind = "FeeFilter" -> 5

Payload(msg) ==
  CASE msg.kind \in {"Ping", "Pong"} -> << msg.nonce >>
    [] msg.kind = "FeeFilter" -> << msg.feerate >>
    [] OTHER -> << >>

RECURSIVE SumBytes(_)
SumBytes(bytes) ==
  IF bytes = << >> THEN 0 ELSE Head(bytes) + SumBytes(Tail(bytes))

\* The checksum of a payload, in one byte.
Checksum(payload) == (SumBytes(payload) + 93) % 256

to_le_bytes(n) == << n % 256, (n \div 256) % 256 >>
from_le_bytes(bytes) == bytes[1] + 256 * bytes[2]

\* RawNetworkMessage::consensus_encode
serialize_message(msg) ==
  LET payload == Payload(msg) IN
  << MAGIC, Command(msg) >> \o to_le_bytes(Len(payload))
    \o << Checksum(payload) >> \o payload

\* parse_message decoding the payload without comparing the checksum.
parse_message_unchecked(data) ==
  IF Len(data) < HeaderLen THEN << >>
  ELSE LET payload == SubSeq(data, HeaderLen + 1, Len(data))
           length == from_le_bytes(SubSeq(data, LengthAt, LengthAt + 1))
           command == data[2]
       IN IF length # Len(payload) THEN << >>
          ELSE IF data[1] # MAGIC THEN << >>
          ELSE IF command = 1 /\ payload = << >> THEN << MsgVerack >>
          ELSE IF command = 2 /\ payload = << >> THEN << MsgGetAddr >>
          ELSE IF command = 3 /\ Len(payload) = 1
               THEN << MsgPing(payload[1]) >>
          ELSE IF command = 4 /\ Len(payload) = 1
               THEN << MsgPong(payload[1]) >>
          ELSE IF command = 5 /\ Len(payload) = 1
               THEN << MsgFeeFilter(payload[1]) >>
          ELSE << >>

\* Result<Message> as a sequence of length 0 (Err) or 1 (Ok).
parse_message(data) ==
  IF Len(data) < HeaderLen THEN << >>
  ELSE LET payload == SubSeq(data, HeaderLen + 1, Len(data))
           length == from_le_bytes(SubSeq(data, LengthAt, LengthAt + 1))
           command == data[2]
       IN IF length # Len(payload) \/ data[HeaderLen] # Checksum(payload)
          THEN << >>
          ELSE IF data[1] # MAGIC THEN << >>
          ELSE IF command = 1 /\ payload = << >> THEN << MsgVerack >>
          ELSE IF command = 2 /\ payload = << >> THEN << MsgGetAddr >>
          ELSE IF command = 3 /\ Len(payload) = 1
               THEN << MsgPing(payload[1]) >>
          ELSE IF command = 4 /\ Len(payload) = 1
               THEN << MsgPong(payload[1]) >>
          ELSE IF command = 5 /\ Len(payload) = 1
               THEN << MsgFeeFilter(payload[1]) >>
          ELSE << >>

\* process_buffer emptying the accumulator after each frame it takes.
RECURSIVE process_buffer_clearing(_, _)
process_buffer_clearing(buf, msgs) ==
  IF Len(buf) < HeaderLen THEN [buf |-> buf, msgs |-> msgs, oversize |-> FALSE]
  ELSE LET payload_len == from_le_bytes(SubSeq(buf, LengthAt, LengthAt + 1))
           total_len == HeaderLen + payload_len
       IN IF payload_len > MAX_MESSAGE_SIZE
          THEN [buf |-> << >>, msgs |-> msgs, oversize |-> TRUE]
          ELSE IF Len(buf) < total_len
          THEN [buf |-> buf, msgs |-> msgs, oversize |-> FALSE]
          ELSE process_buffer_clearing(
                 << >>, msgs \o parse_message(SubSeq(buf, 1, total_len)))

\* Peer::process_buffer: the accumulator left, the messages parsed and
\* passed to Peer::handle_message, in order, and whether it returned from
\* the branch of the oversized payload.
RECURSIVE process_buffer(_, _)
process_buffer(buf, msgs) ==
  IF Len(buf) < HeaderLen THEN [buf |-> buf, msgs |-> msgs, oversize |-> FALSE]
  ELSE LET payload_len == from_le_bytes(SubSeq(buf, LengthAt, LengthAt + 1))
           total_len == HeaderLen + payload_len
       IN IF payload_len > MAX_MESSAGE_SIZE
          THEN [buf |-> << >>, msgs |-> msgs, oversize |-> TRUE]
          ELSE IF Len(buf) < total_len
          THEN [buf |-> buf, msgs |-> msgs, oversize |-> FALSE]
          ELSE process_buffer(
                 SubSeq(buf, total_len + 1, Len(buf)),
                 msgs \o parse_message(SubSeq(buf, 1, total_len)))

\* Peer::handle_message over the messages of one read: the events emitted
\* and the messages written back, in order.
RECURSIVE handle_messages(_, _, _)
handle_messages(addr, msgs, out) ==
  IF msgs = << >> THEN out
  ELSE LET msg == Head(msgs) IN
       handle_messages(addr, Tail(msgs),
         IF msg.kind = "Ping"
         THEN [out EXCEPT !.written = Append(@, MsgPong(msg.nonce))]
         ELSE [out EXCEPT !.events = Append(@, Message(addr, msg))])

\* An endpoint that runs, with the bytes its socket holds (stream), the
\* accumulator of Peer::run, what it wrote, and as history the messages the
\* remote framed and the messages process_buffer parsed.
WireConn(a) ==
  [ task |-> "done", ep |-> "running", addr |-> a, dir |-> "out",
    node_type |-> from_user_agent(AgentOf(a)), qlen |-> 0,
    stream |-> << >>, accumulated |-> << >>, written |-> << >>,
    framed |-> << >>, decoded |-> << >>,
    oversized |-> 0 ]       \* history: reads that met an oversized payload

\* The remote peer writes one frame.
RemoteSends(c, msg) ==
  /\ conns[c].ep = "running"
  /\ Len(conns[c].framed) < MaxFrames
  /\ conns' = [conns EXCEPT ![c].stream = @ \o serialize_message(msg),
                            ![c].framed = Append(@, msg)]
  /\ Quiet
  /\ UNCHANGED << peers, pending_outbound, relay_state, metrics, db, events,
                  filler, clock, announced >>

\* Peer::run, socket read branch: Ok(n) with n > 0.
EndpointRead(c, n) ==
  /\ conns[c].ep = "running"
  /\ n <= Len(conns[c].stream)
  /\ LET read == SubSeq(conns[c].stream, 1, n)
         rest == SubSeq(conns[c].stream, n + 1, Len(conns[c].stream))
         r == process_buffer(conns[c].accumulated \o read, << >>)
         out == handle_messages(conns[c].addr, r.msgs,
                                [events |-> events, written |-> conns[c].written])
     IN /\ conns' = [conns EXCEPT ![c].stream = rest,
                                  ![c].accumulated = r.buf,
                                  ![c].written = out.written,
                                  ![c].decoded = @ \o r.msgs,
                                  ![c].oversized =
                                     IF r.oversize THEN @ + 1 ELSE @]
        /\ events' = out.events
  /\ Quiet
  /\ UNCHANGED << peers, pending_outbound, relay_state, metrics, db, filler,
                  clock, announced >>

InitWire ==
  /\ conns = [c \in ConnIds |-> IF c = 1 THEN WireConn("a1") ELSE FreeConn]
  /\ peers = << PeerHandle(1, conns) >>
  /\ pending_outbound = {}
  /\ relay_state = RelayStateDefault
  /\ metrics = update_peer_counts(
                 [MetricsNew EXCEPT !.total_connections = 1], peers)
  /\ db = [a \in {"a1"} |-> NodeInfo(from_user_agent(AgentOf(a)), 0, 0, TRUE, <<AgentOf(a)>>)]
  /\ events = << >>
  /\ filler = FillerIdle
  /\ clock = 0
  /\ sent = << >>
  /\ handled = NoDispatch
  /\ announced = [t \in Txids |-> 0]

NextWire ==
  \/ \E msg \in WireMessages : RemoteSends(1, msg)
  \/ \E n \in 1..ReadBufLen : EndpointRead(1, n)

SpecWire == InitWire /\ [][NextWire]_vars

\* ------------------------------------------------------ undecodable frames
\* What the remote framed when the frame does not decode.
MsgCorrupt(how) == [kind |-> "Corrupt", how |-> how]

Corruptions == { "magic", "checksum", "payload" }

\* A whole frame that RawNetworkMessage::consensus_decode or the magic test
\* of parse_message rejects: a Ping under another network's magic, a Ping
\* whose checksum is not the payload's, and a Ping without its nonce.
CorruptFrame(how) ==
  CASE how = "magic" ->
         [serialize_message(MsgPing(7)) EXCEPT ![1] = MAGIC - 1]
    [] how = "checksum" ->
         [serialize_message(MsgPing(7)) EXCEPT ![HeaderLen] = (@ + 1) % 256]
    [] how = "payload" ->
         << MAGIC, Command(MsgPing(7)) >> \o to_le_bytes(0)
           \o << Checksum(<< >>) >>

\* The remote peer writes a frame that does not decode.
RemoteSendsCorrupt(c, how) ==
  /\ conns[c].ep = "running"
  /\ Len(conns[c].framed) < MaxFrames
  /\ conns' = [conns EXCEPT ![c].stream = @ \o CorruptFrame(how),
                            ![c].framed = Append(@, MsgCorrupt(how))]
  /\ Quiet
  /\ UNCHANGED << peers, pending_outbound, relay_state, metrics, db, events,
                  filler, clock, announced >>

NextCorrupt ==
  \/ \E msg \in WireMessages : RemoteSends(1, msg)
  \/ \E how \in Corruptions : RemoteSendsCorrupt(1, how)
  \/ \E n \in 1..ReadBufLen : EndpointRead(1, n)

SpecCorrupt == InitWire /\ [][NextCorrupt]_vars

\* --------------------------------------------------- oversized payloads
\* What the remote framed when it announced a payload beyond the limit.
MsgOversized == [kind |-> "Oversized"]

\* The frame of a payload of MAX_MESSAGE_SIZE + 1 zero bytes.
OversizedFrame ==
  LET payload == [i \in 1..(MAX_MESSAGE_SIZE + 1) |-> 0] IN
  << MAGIC, 5 >> \o to_le_bytes(Len(payload)) \o << Checksum(payload) >>
    \o payload

\* The remote peer writes a frame whose header announces more than
\* MAX_MESSAGE_SIZE bytes of payload.
RemoteSendsOversized(c) ==
  /\ conns[c].ep = "running"
  /\ Len(conns[c].framed) < MaxFrames
  /\ conns' = [conns EXCEPT ![c].stream = @ \o OversizedFrame,
                            ![c].framed = Append(@, MsgOversized)]
  /\ Quiet
  /\ UNCHANGED << peers, pending_outbound, relay_state, metrics, db, events,
                  filler, clock, announced >>

NextOversized ==
  \/ \E msg \in WireMessages : RemoteSends(1, msg)
  \/ RemoteSendsOversized(1)
  \/ \E n \in 1..ReadBufLen : EndpointRead(1, n)

SpecOversized == InitWire /\ [][NextOversized]_vars

\* ------------------------------------------------- the handshake, step by step
\* Peer::connect / Peer::accept and Peer::handshake between their awaits.
MsgVersion(user_agent) == [kind |-> "Version", user_agent |-> user_agent]

\* config.rs: the user agent this node advertises.
OurAgent == << "/", "C", "r", "a", "b", "/" >>

\* A connection whose task was spawned, at the first await of its task: the
\* TCP connect of a dial, the Version write of an accepted stream.
HsTask(addr, dir) ==
  [ task |-> "handshake", ep |-> "none", addr |-> addr, dir |-> dir,
    node_type |-> "unknown", qlen |-> 0,
    hs |-> IF dir = "out" THEN "connect" ELSE "send_version",
    version |-> << >>,      \* Peer.version
    wrote |-> << >>,        \* history: the messages written to the peer
    ignored |-> << >> ]     \* history: the messages received and passed over

\* The position of connection c in Peer::handshake.
Hs(c) == IF "hs" \in DOMAIN conns[c] THEN conns[c].hs ELSE "none"
InHandshake(c, hs) == conns[c].task = "handshake" /\ Hs(c) = hs

HsFrame ==
  /\ Quiet
  /\ UNCHANGED << peers, pending_outbound, relay_state, metrics, db, events,
                  filler, clock, announced >>

\* TcpStream::connect returns the stream.
HsConnect(c) ==
  /\ InHandshake(c, "connect")
  /\ conns' = [conns EXCEPT ![c].hs = "send_version"]
  /\ HsFrame

HsSendVersion(c) ==
  /\ InHandshake(c, "send_version")
  /\ conns' = [conns EXCEPT ![c].wrote = Append(@, MsgVersion(OurAgent)),
                            ![c].hs = "await_version"]
  /\ HsFrame

\* A user agent made of parts: "/part/part/".
RECURSIVE JoinParts(_)
JoinParts(parts) ==
  IF parts = << >> THEN << "/" >>
  ELSE << "/" >> \o Head(parts) \o JoinParts(Tail(parts))

\* The user agent in the Version the remote of connection c sends.
RemoteAgent(c) ==
  IF "agent_parts" \in DOMAIN conns[c] THEN JoinParts(conns[c].agent_parts)
  ELSE AgentOf(conns[c].addr)

\* The first loop: recv_message returns the peer's Version.
HsRecvVersion(c) ==
  /\ InHandshake(c, "await_version")
  /\ LET v == MsgVersion(RemoteAgent(c)) IN
       conns' = [conns EXCEPT ![c].node_type = from_user_agent(v.user_agent),
                              ![c].version = << v.user_agent >>,
                              ![c].hs = "send_verack"]
  /\ HsFrame

HsSendVerack(c) ==
  /\ InHandshake(c, "send_verack")
  /\ conns' = [conns EXCEPT ![c].wrote = Append(@, MsgVerack),
                            ![c].hs = "await_verack"]
  /\ HsFrame

\* HsRecvVerack without the upsert.
HsRecvVerack_no_upsert(c) ==
  /\ InHandshake(c, "await_verack")
  /\ Len(events) < MaxEvents
  /\ conns' = [conns EXCEPT ![c].hs = "established", ![c].task = "ready"]
  /\ db' = db
  /\ events' = Append(events, Connected(conns[c].addr))
  /\ Quiet
  /\ UNCHANGED << peers, pending_outbound, relay_state, metrics, filler,
                  clock, announced >>

\* The second loop: recv_message returns Verack; the row is upserted,
\* Connected is sent and handshake returns, with no await in between.
HsRecvVerack(c) ==
  /\ InHandshake(c, "await_verack")
  /\ Len(events) < MaxEvents
  /\ conns' = [conns EXCEPT ![c].hs = "established", ![c].task = "ready"]
  /\ db' = insert_or_update(db, conns[c].addr,
                            NodeInfo(conns[c].node_type, clock, 0, TRUE,
                                     conns[c].version)).db
  /\ events' = Append(events, Connected(conns[c].addr))
  /\ Quiet
  /\ UNCHANGED << peers, pending_outbound, relay_state, metrics, filler,
                  clock, announced >>

\* HsRecvOther answering what it passes over.
HsRecvOther_answering(c, msg) ==
  /\ \/ InHandshake(c, "await_version") /\ msg.kind # "Version"
     \/ InHandshake(c, "await_verack") /\ msg.kind # "Verack"
  /\ Len(conns[c].ignored) < MaxIgnored
  /\ conns' = [conns EXCEPT ![c].ignored =
                              Append(@, [hs |-> conns[c].hs, msg |-> msg]),
                            ![c].wrote = Append(@, MsgPong(7))]
  /\ HsFrame

\* Either loop: recv_message returns a message the loop does not wait for
\* (Some(_) => continue).
HsRecvOther(c, msg) ==
  /\ \/ InHandshake(c, "await_version") /\ msg.kind # "Version"
     \/ InHandshake(c, "await_verack") /\ msg.kind # "Verack"
  /\ Len(conns[c].ignored) < MaxIgnored
  /\ conns' = [conns EXCEPT ![c].ignored =
                              Append(@, [hs |-> conns[c].hs, msg |-> msg])]
  /\ HsFrame

\* The messages a remote peer may send while the handshake waits.
HsMessages == { MsgVersion(AgentOf("a2")), MsgVerack, MsgPing(7) }

\* A dial to a1 and an accepted stream from a2, both rows being in the store.
InitHandshake ==
  /\ conns = [c \in ConnIds |-> CASE c = 1 -> HsTask("a1", "out")
                                   [] c = 2 -> HsTask("a2", "in")
                                   [] OTHER -> FreeConn]
  /\ peers = << >>
  /\ pending_outbound = {"a1"}
  /\ relay_state = RelayStateDefault
  /\ metrics = MetricsNew
  /\ db = SeededDb({"a1", "a2"})
  /\ events = << >>
  /\ filler = FillerIdle
  /\ clock = 0
  /\ sent = << >>
  /\ handled = NoDispatch
  /\ announced = [t \in Txids |-> 0]

\* One step of Peer::handshake on connection c.
HsStep(c) ==
  \/ HsConnect(c)
  \/ HsSendVersion(c)
  \/ HsRecvVersion(c)
  \/ HsSendVerack(c)
  \/ HsRecvVerack(c)
  \/ \E msg \in HsMessages : HsRecvOther(c, msg)

NextHandshake ==
  \/ \E c \in ConnIds : HsStep(c)
  \/ \E c \in ConnIds : HandshakeFail(c)
  \/ \E c \in ConnIds : AdoptInbound(c)
  \/ \E c \in ConnIds : AdoptOutbound(c)
  \/ \E c \in ConnIds : ResolveDial(c)
  \/ ProcessConnected

SpecHandshake == InitHandshake /\ [][NextHandshake]_vars

\* The timer of the timeout around Peer::connect / Peer::accept fires
\* unless the handshake is over first.
SpecHandshakeFair ==
  SpecHandshake /\ \A c \in ConnIds : WF_vars(HandshakeFail(c))

\* ------------------------------------------------- classification of the peer
\* The parts remote nodes put into their user agents, in several spellings.
AgentParts ==
  { << "K", "n", "o", "t", "s", ":", "2" >>, << "K", "N", "O", "T", "S" >>,
    << "L", "i", "b", "r", "e", "R", "e", "l", "a", "y" >>,
    << "l", "i", "b", "r", "E" >>,
    << "S", "a", "t", "o", "s", "h", "i", ":", "2", "5" >>,
    << "s", "A", "T", "O", "S", "H", "I" >>,
    << "b", "t", "c", "-", "C", "o", "r", "e" >>,
    << "K", "n", "o", "t" >>, << "F", "o", "o" >> }

\* The lists of one or two parts.
AgentPartLists ==
  { << p >> : p \in AgentParts } \cup { << p, q >> : p, q \in AgentParts }

\* A dial to a1, whichever node answers there.
InitClassify ==
  /\ \E parts \in AgentPartLists :
       conns = [c \in ConnIds |->
                  IF c = 1
                  THEN [ task |-> "handshake", ep |-> "none", addr |-> "a1",
                         dir |-> "out", node_type |-> "unknown", qlen |-> 0,
                         hs |-> "connect", version |-> << >>, wrote |-> << >>,
                         ignored |-> << >>, agent_parts |-> parts ]
                  ELSE FreeConn]
  /\ peers = << >>
  /\ pending_outbound = {"a1"}
  /\ relay_state = RelayStateDefault
  /\ metrics = MetricsNew
  /\ db = SeededDb({"a1"})
  /\ events = << >>
  /\ filler = FillerIdle
  /\ clock = 0
  /\ sent = << >>
  /\ handled = NoDispatch
  /\ announced = [t \in Txids |-> 0]

NextClassify ==
  \/ \E c \in ConnIds : HsStep(c)
  \/ \E c \in ConnIds : HandshakeFail(c)
  \/ \E c \in ConnIds : AdoptOutbound(c)
  \/ \E c \in ConnIds : ResolveDial(c)
  \/ ProcessConnected

SpecClassify == InitClassify /\ [][NextClassify]_vars

\* ------------------------------------------------------ one tick of the filler
\* The filler's first tick on an empty peer list and a store of IPv4
\* candidates, with no inbound connection and every endpoint staying up.
InitOneTick == Fresh(SeededDb(Addrs \cup Addrs6))

FirstTick ==
  /\ \A c \in ConnIds : conns[c].task = "none"
  /\ FillerTick

NextOneTick ==
  \/ FirstTick
  \/ FillerReadPeers
  \/ FillerReadPending
  \/ FillerQuery
  \/ FillerLaunch
  \/ \E c \in ConnIds : HandshakeOk(c)
  \/ \E c \in ConnIds : HandshakeFail(c)
  \/ \E c \in ConnIds : AdoptOutbound(c)
  \/ \E c \in ConnIds : ResolveDial(c)
  \/ ProcessConnected

SpecOneTick == InitOneTick /\ [][NextOneTick]_vars

\* ------------------------------------------------------------ vocabulary
Range(f) == { f[x] : x \in DOMAIN f }
\* The n newest entries of a queue in insertion order.
LastN(s, n) == IF Len(s) <= n THEN s ELSE SubSeq(s, Len(s) - n + 1, Len(s))

\* The step dispatches the event at the head of the channel.
Dispatches(kind) == HeadIsMessage(kind) /\ handled'.event = Head(events)
HeadTx == Head(events).message.tx
HeadTxid == compute_txid(HeadTx)
HeadWtxid == compute_wtxid(HeadTx)

InvOf(txid) == MsgInv(<<Transaction(txid)>>)
SentTo(s, c, msg) == \E i \in 1..Len(s) : s[i].conn = c /\ s[i].msg = msg
HandledTx == handled.event.type = "Message" /\ handled.event.message.kind = "Tx"

HeadInvList == Head(events).message.list
\* The keys of the transaction-type entries of an inventory list.
InvKeys(list) ==
  { inventory_key(list[i])[1] :
      i \in { j \in 1..Len(list) : inventory_key(list[j]) # <<>> } }
\* s holds a GetData that asks for key k.
GetDataFor(s, k) ==
  \E i \in 1..Len(s) : /\ s[i].msg.kind = "GetData"
                        /\ k \in InvKeys(s[i].msg.list)
HandledInv == handled.event.type = "Message" /\ handled.event.message.kind = "Inv"

\* The endpoint behind a handle takes one more message.
QueueAccepts(c) ==
  conns[c].ep = "running" /\ conns[c].qlen < OUTBOUND_QUEUE_CAPACITY

\* ---------------------------------------------------------------- claim C1
\* C1 as stated: when a not-yet-seen Tx from peer A is dispatched, the
\* Inv([Transaction(txid)]) is enqueued to exactly the peers of the list
\* other than A whose node_type is not Knots.
C1_RelayToEveryNonKnots ==
  [][ (Dispatches("Tx") /\ HeadTxid \notin relay_state.seen_txids) =>
        \A i \in 1..Len(peers) :
          (peers[i].addr # Head(events).addr /\ peers[i].node_type # "knots")
            <=> SentTo(sent', peers[i].conn, InvOf(HeadTxid)) ]_vars

\* C1 amended: the Inv is enqueued, once, to exactly the peers of the list
\* other than A that are not Knots and whose queue accepts it; such a peer
\* whose queue refuses it is removed from the list, nobody else is; and no
\* Inv is ever enqueued to a Knots peer.
C1_RelayFilter ==
  /\ [][ (Dispatches("Tx") /\ HeadTxid \notin relay_state.seen_txids) =>
           LET Target(h) == h.addr # Head(events).addr /\ h.node_type # "knots"
               Served(h) == Target(h) /\ QueueAccepts(h.conn)
               Kept(h) == ~Target(h) \/ QueueAccepts(h.conn)
               served == SelectSeq(peers, Served)
           IN /\ sent' = [i \in 1..Len(served) |->
                            [conn |-> served[i].conn, addr |-> served[i].addr,
                             msg |-> InvOf(HeadTxid)]]
              /\ peers' = SelectSeq(peers, Kept) ]_vars
  /\ [](\A i \in 1..Len(sent) :
          sent[i].msg.kind = "Inv" => conns[sent[i].conn].node_type # "knots")

\* A new Tx from a1 was relayed while the Knots peer a2 and a3 were listed:
\* the one Inv went to a3.
C1_Witness ==
  /\ HandledTx /\ handled.is_new /\ handled.event.addr = "a1"
  /\ \E i \in 1..Len(peers) : peers[i].node_type = "knots"
  /\ Len(sent) = 1 /\ sent[1].addr = "a3" /\ sent[1].msg.kind = "Inv"

\* ---------------------------------------------------------------- claim C2
\* C2: a Tx whose txid is in seen_keys (the second posting) enqueues nothing
\* and changes no counter, list or queue; a Tx whose txid is not (the first
\* posting) increments transactions_received and the source's counter by one
\* and enqueues only the Inv of its txid, and leaves its txid and wtxid in
\* seen_keys, so that its repetition is a second posting.
C2_SeenIdempotence ==
  [][ Dispatches("Tx") =>
        /\ HeadTxid \in relay_state.seen_txids =>
             /\ sent' = <<>> /\ metrics' = metrics
             /\ peers' = peers /\ conns' = conns
             /\ ~handled'.is_new
        /\ HeadTxid \notin relay_state.seen_txids =>
             /\ handled'.is_new
             /\ metrics'.transactions_received =
                  metrics.transactions_received + 1
             /\ LET src == peer_node_type(peers, Head(events).addr) IN
                metrics'.transactions_received_from =
                  [metrics.transactions_received_from EXCEPT ![src] = @ + 1]
             /\ \A i \in 1..Len(sent') : sent'[i].msg = InvOf(HeadTxid)
             /\ {HeadTxid, HeadWtxid} \subseteq relay_state'.seen_txids ]_vars

\* The second posting of a transaction was dispatched while a peer that
\* would have been announced to was listed.
C2_Witness ==
  /\ HandledTx /\ ~handled.is_new
  /\ announced[compute_txid(handled.event.message.tx)] = 1
  /\ metrics.transactions_received = 1
  /\ sent = <<>>
  /\ \E i \in 1..Len(peers) :
       /\ peers[i].addr # handled.event.addr /\ peers[i].node_type # "knots"
       /\ QueueAccepts(peers[i].conn)

\* ---------------------------------------------------------------- claim C3
\* C3 as stated: a txid is re-announced at most once in the whole execution.
C3_AtMostOnceEver == \A t \in Txids : announced[t] <= 1

\* C3 amended: a txid is re-announced (and counted) exactly in the steps in
\* which it enters seen_keys, hence at most once for as long as it stays
\* there; after the FIFO cap evicted it, it is accepted again.
C3_OncePerStayInSeen ==
  [][ /\ \A t \in Txids :
           /\ announced'[t] # announced[t] <=>
                (t \notin relay_state.seen_txids
                   /\ t \in relay_state'.seen_txids)
           /\ announced'[t] \in {announced[t], announced[t] + 1}
      /\ metrics'.transactions_received - metrics.transactions_received
           = Cardinality({ t \in Txids : announced'[t] # announced[t] }) ]_vars

\* A txid was evicted from seen_keys and then accepted a second time.
C3_Witness ==
  /\ HandledTx /\ handled.is_new
  /\ announced[compute_txid(handled.event.message.tx)] = 2

\* ---------------------------------------------------------------- claim C9
\* C9: every wtxid in wtxid_index maps to a txid present in tx_cache, and a
\* txid that leaves tx_cache leaves no wtxid_index entry pointing to it.
C9_WtxidIndex ==
  /\ [](\A w \in DOMAIN relay_state.tx_by_wtxid :
          relay_state.tx_by_wtxid[w] \in DOMAIN relay_state.tx_cache)
  /\ [][ \A t \in (DOMAIN relay_state.tx_cache)
                    \ (DOMAIN relay_state'.tx_cache) :
           \A w \in DOMAIN relay_state'.tx_by_wtxid :
             relay_state'.tx_by_wtxid[w] # t ]_vars

\* A cached transaction was evicted by a newer one that is indexed.
C9_Witness ==
  /\ \E t \in Txids : announced[t] >= 1 /\ t \notin DOMAIN relay_state.tx_cache
  /\ relay_state.tx_by_wtxid # <<>>
  /\ Len(relay_state.tx_cache_order) = RECENT_TX_CACHE_LIMIT

\* --------------------------------------------------------------- claim C10
\* C10: seen_keys never holds more than SEEN_TX_CACHE_LIMIT keys nor tx_cache
\* more than RECENT_TX_CACHE_LIMIT transactions; a Tx step leaves of the old
\* entries followed by the inserted one the newest up to the cap (the oldest
\* are the ones evicted), and the inserted entry is among those left.
C10_CapsAndFifo ==
  /\ [](/\ Cardinality(relay_state.seen_txids) <= SEEN_TX_CACHE_LIMIT
        /\ Range(relay_state.seen_order) = relay_state.seen_txids
        /\ Cardinality(DOMAIN relay_state.tx_cache) <= RECENT_TX_CACHE_LIMIT
        /\ Range(relay_state.tx_cache_order) = DOMAIN relay_state.tx_cache)
  /\ [][ Dispatches("Tx") =>
           LET old == relay_state
               new_txid == IF HeadTxid \in old.seen_txids
                           THEN <<>> ELSE <<HeadTxid>>
               mid == LastN(old.seen_order \o new_txid, SEEN_TX_CACHE_LIMIT)
               new_wtxid == IF HeadWtxid \in Range(mid)
                            THEN <<>> ELSE <<HeadWtxid>>
               cached == IF HeadTxid \in old.seen_txids
                            \/ HeadTxid \in DOMAIN old.tx_cache
                         THEN <<>> ELSE <<HeadTxid>>
           IN /\ relay_state'.seen_order =
                   LastN(mid \o new_wtxid, SEEN_TX_CACHE_LIMIT)
              /\ Range(new_txid) \subseteq Range(mid)
              /\ Range(new_wtxid) \subseteq relay_state'.seen_txids
              /\ relay_state'.tx_cache_order =
                   LastN(old.tx_cache_order \o cached, RECENT_TX_CACHE_LIMIT)
              /\ Range(cached) \subseteq DOMAIN relay_state'.tx_cache ]_vars

\* Both caps were hit: a step evicted from seen_keys and from tx_cache.
C10_Witness ==
  /\ HandledTx /\ handled.is_new
  /\ Len(relay_state.seen_order) = SEEN_TX_CACHE_LIMIT
  /\ \E t \in Txids : announced[t] >= 1 /\ t \notin relay_state.seen_txids
  /\ \E t \in Txids : announced[t] >= 1 /\ t \notin DOMAIN relay_state.tx_cache

\* ---------------------------------------------------------------- claim C4
\* C4 as stated: whenever an Inv is dispatched that names a key whose
\* request is REQUESTED_TXID_TTL or more old, a GetData for the key is
\* enqueued.
C4_ReRequestedFromTtl ==
  [][ Dispatches("Inv") =>
        \A k \in InvKeys(HeadInvList) \cap DOMAIN relay_state.requested_txids :
          clock - relay_state.requested_txids[k] >= REQUESTED_TXID_TTL
            => GetDataFor(sent', k) ]_vars

\* C4 amended: a requested key is never a seen key; its entry changes only
\* when a Tx with that txid or wtxid is dispatched (which removes it) or when
\* an Inv is dispatched REQUESTED_TXID_TTL or more after the request.  An Inv
\* dispatched strictly before that leaves the entry as it is and enqueues no
\* GetData for the key, whichever peer announces it.  An Inv dispatched at
\* the TTL or later drops the entry, and when it names the key records the key
\* again with the current time; the GetData for it is enqueued to the
\* announcer when the announcer is in the peer list and its queue accepts,
\* and otherwise no GetData is enqueued at all.
C4_RequestTtl ==
  /\ [](DOMAIN relay_state.requested_txids \cap relay_state.seen_txids = {})
  /\ [][ \A k \in DOMAIN relay_state.requested_txids :
          LET t == relay_state.requested_txids[k]
              req == relay_state'.requested_txids
              by_tx == Dispatches("Tx") /\ k \in {HeadTxid, HeadWtxid}
              expired == clock - t >= REQUESTED_TXID_TTL
              from == FindPeer(peers, Head(events).addr)
              accepts == from # <<>> /\ QueueAccepts(from[1].conn)
          IN /\ (k \notin DOMAIN req \/ req[k] # t)
                  => by_tx \/ (Dispatches("Inv") /\ expired)
             /\ by_tx => k \notin DOMAIN req
             /\ Dispatches("Inv") /\ ~expired
                  => req[k] = t /\ ~GetDataFor(sent', k)
             /\ Dispatches("Inv") /\ expired /\ k \notin InvKeys(HeadInvList)
                  => k \notin DOMAIN req
             /\ Dispatches("Inv") /\ expired /\ k \in InvKeys(HeadInvList)
                  => /\ k \in DOMAIN req /\ req[k] = clock
                     /\ IF accepts
                        THEN /\ Len(sent') = 1
                             /\ sent'[1].conn = from[1].conn
                             /\ GetDataFor(sent', k)
                        ELSE sent' = <<>> ]_vars

\* An Inv was just dispatched in which the request of one named key had
\* expired and was renewed with a GetData, while another requested key,
\* younger than the TTL, kept its time.
C4_Witness ==
  /\ HandledInv
  /\ \E k \in handled.expired \cap InvKeys(handled.event.message.list) :
        /\ relay_state.requested_txids[k] = clock
        /\ GetDataFor(sent, k)
  /\ \E k \in DOMAIN relay_state.requested_txids :
        /\ relay_state.requested_txids[k] < clock
        /\ clock - relay_state.requested_txids[k] < REQUESTED_TXID_TTL

\* ---------------------------------------------------------------- claim C5
\* A task of connection c is spawned, resp. decides on the adoption of its
\* peer, in the step.
Launches(c) ==
  conns[c].task = "none" /\ conns'[c].task = "handshake" /\ conns'[c].dir = "out"
Decides(c) == conns[c].task = "ready" /\ conns'[c].task # "ready"

\* C5: the peer list never holds two handles of one address; the task of a
\* handshaken peer whose address is in the list leaves the list as it is and
\* drops the peer, any other appends its handle and runs the peer; a dropped
\* peer is never run, and only such a task starts an endpoint.
C5_OneHandlePerAddress ==
  /\ [](\A i, j \in 1..Len(peers) :
          i # j => peers[i].addr # peers[j].addr)
  /\ [][ \A c \in ConnIds :
           /\ Decides(c) =>
                IF conns[c].addr \in PeerAddrs(peers)
                THEN peers' = peers /\ conns'[c].ep = "dropped"
                ELSE /\ peers' = Append(peers, PeerHandle(c, conns))
                     /\ conns'[c].ep = "running"
           /\ conns[c].ep = "dropped" => conns'[c].ep = "dropped"
           /\ (conns[c].ep # "running" /\ conns'[c].ep = "running")
                => Decides(c) ]_vars

\* A second handshake to an address of the list has completed and its peer
\* was dropped: the list holds the one handle of the first.
C5_Witness ==
  \E c \in ConnIds :
    /\ conns[c].ep = "dropped"
    /\ conns[c].task = "resolving"
    /\ Cardinality({ i \in 1..Len(peers) : peers[i].addr = conns[c].addr }) = 1
    /\ \E i \in 1..Len(peers) :
         peers[i].addr = conns[c].addr /\ peers[i].conn # c

\* ---------------------------------------------------------------- claim C6
\* C6: when the filler launches a dial, the address is neither in the peer
\* list nor in pending_outbound at that moment.
C6_NoRedial ==
  [][ \A c \in ConnIds :
        Launches(c) =>
          conns'[c].addr \notin PeerAddrs(peers) \cup pending_outbound ]_vars

\* ---------------------------------------------------------------- claim C7
\* The outbound connections whose dial task has not resolved.
Unresolved ==
  { c \in ConnIds : /\ conns[c].dir = "out"
                    /\ conns[c].task \in {"handshake", "ready", "resolving"} }

\* C7: pending_outbound is at every moment the set of the addresses of the
\* unresolved dial tasks (so it is empty when none is in flight), no two
\* unresolved tasks dial one address, and every address in it is eventually
\* out of it.
C7_PendingLifetime ==
  /\ [](pending_outbound = { conns[c].addr : c \in Unresolved })
  /\ [](\A c, d \in Unresolved : conns[c].addr = conns[d].addr => c = d)
  /\ \A a \in Addrs : (a \in pending_outbound) ~> (a \notin pending_outbound)

\* Two dials have resolved, one adopted and one dropped as a duplicate, and
\* the set is empty.
C7_Witness ==
  /\ pending_outbound = {}
  /\ \E c \in ConnIds :
       conns[c].dir = "out" /\ conns[c].task = "done" /\ conns[c].ep = "running"
  /\ \E c \in ConnIds : conns[c] = OverConn("dropped")
  /\ Unresolved = {}

\* ---------------------------------------------------------------- claim C8
\* C8: after the first tick on an empty peer list, with as many candidates as
\* the tick may dial, at most target_peers + target_peers / 2 dials are
\* launched and the peer list never grows beyond target_peers.
C8_AdoptedWithinTarget ==
  /\ Spawned <= target_peers + (target_peers \div 2)
  /\ Len(peers) <= target_peers

\* --------------------------------------------------------------- claim C11
HandledGetAddr ==
  handled.event.type = "Message" /\ handled.event.message.kind = "GetAddr"

\* The peers of the list other than the one at addr.
OtherPeers(addr) == { i \in 1..Len(peers) : peers[i].addr # addr }

C12_AlwaysOneAddr ==
  [][ Dispatches("GetAddr") /\ Head(events).addr \in PeerAddrs(peers) =>
        /\ Len(sent') = 1
        /\ sent'[1].addr = Head(events).addr
        /\ sent'[1].msg.kind = "Addr" ]_vars

\* C12 amended: a dispatched GetAddr is answered with a single Addr to the
\* requester when the list holds another peer, the requester is in the list
\* and its queue accepts; otherwise nothing is sent, and a requester whose
\* queue refused is removed from the list.
C12_OneAddrWhenPossible ==
  [][ Dispatches("GetAddr") =>
        LET R == Head(events).addr
            from == FindPeer(peers, R)
            accepts == from # <<>> /\ QueueAccepts(from[1].conn)
        IN IF OtherPeers(R) # {} /\ accepts
           THEN /\ Len(sent') = 1
                /\ sent'[1].conn = from[1].conn
                /\ sent'[1].msg.kind = "Addr"
                /\ peers' = peers
           ELSE /\ sent' = <<>>
                /\ peers' = IF OtherPeers(R) # {}
                            THEN SelectSeq(peers, LAMBDA p : p.addr # R)
                            ELSE peers ]_vars

\* A GetAddr of the only connected peer was just dispatched, and nothing
\* was sent.
C12_Witness ==
  /\ HandledGetAddr
  /\ PeerAddrs(peers) = {handled.event.addr}
  /\ handled.response_addrs = <<>>
  /\ sent = <<>>

\* --------------------------------------------------------------- claim C13
\* The step is the call op on the store.
StoreCalls(op) == handled'.event.type = "Store" /\ handled'.event.op = op
StoreCalled(op) == handled.event.type = "Store" /\ handled.event.op = op

\* n successive mark_failed calls for one address.
RECURSIVE mark_failed_times(_, _, _)
mark_failed_times(d, addr, n) ==
  IF n = 0 THEN d ELSE mark_failed_times(mark_failed(d, addr), addr, n - 1)

\* C13: for every row the store comes to hold, five successive mark_failed
\* calls on a reachable row leave it unreachable, fewer than five leave a
\* reachable row with no failures reachable, and a mark_connected after any
\* number of them makes it reachable with no failures, touching nothing else;
\* in the run, a mark_failed adds one failure and a row is unreachable
\* exactly from its fifth failure in a row on.
C13_FailuresAndReset ==
  /\ [](\A a \in DOMAIN db :
         /\ db[a].is_reachable
              => ~mark_failed_times(db, a, 5)[a].is_reachable
         /\ db[a].is_reachable /\ db[a].connection_failures = 0
              => \A n \in 0..4 : mark_failed_times(db, a, n)[a].is_reachable
         /\ \A n \in 0..5 :
              LET failed == mark_failed_times(db, a, n)
                  back == mark_connected(failed, a)
              IN /\ back[a] = [db[a] EXCEPT !.is_reachable = TRUE,
                                            !.connection_failures = 0]
                 /\ \A b \in DOMAIN db \ {a} : back[b] = db[b]
                 /\ DOMAIN back = DOMAIN db)
  /\ [](\A a \in DOMAIN db :
         db[a].is_reachable <=> db[a].connection_failures < 5)
  /\ [][ \A a \in DOMAIN db :
          /\ StoreCalls("mark_failed") /\ handled'.event.arg = a
               => db'[a].connection_failures = db[a].connection_failures + 1
          /\ StoreCalls("mark_connected") /\ handled'.event.arg = a
               => db'[a].connection_failures = 0 /\ db'[a].is_reachable ]_vars

\* The fifth mark_failed in a row has just made a row unreachable.
C13_Witness ==
  /\ StoreCalled("mark_failed")
  /\ handled.event.arg \in DOMAIN db
  /\ db[handled.event.arg].connection_failures = 5
  /\ ~db[handled.event.arg].is_reachable

\* --------------------------------------------------------------- claim C14
\* The place of a type in the order of the candidates.
PriorityRank(t) ==
  CASE t = "libre" -> 1 [] t = "core" -> 2 [] t = "other" -> 3
    [] t = "unknown" -> 4

\* The rows a dial may go to.
Eligible == { a \in DOMAIN db : db[a].node_type # "knots" /\ db[a].is_reachable }

C15_PruneFrame ==
  [][ StoreCalls("prune_old") =>
        LET before == handled'.event.arg
            gone == { a \in DOMAIN db :
                        ~db[a].is_reachable /\ db[a].last_seen < before }
        IN /\ DOMAIN db' = DOMAIN db \ gone
           /\ \A a \in DOMAIN db' : db'[a] = db[a]
           /\ handled'.ret = Cardinality(gone) ]_vars

\* A prune has removed a row and left an unreachable row seen later and a
\* reachable row seen before the cutoff.
C15_Witness ==
  /\ StoreCalled("prune_old")
  /\ handled.ret = 1
  /\ \E a \in DOMAIN db :
       ~db[a].is_reachable /\ db[a].last_seen >= handled.event.arg
  /\ \E a \in DOMAIN db :
       db[a].is_reachable /\ db[a].last_seen < handled.event.arg

\* --------------------------------------------------------------- claim C16
\* The bytes of a sequence of messages, frame after frame.
RECURSIVE Frames(_)
Frames(msgs) ==
  IF msgs = << >> THEN << >>
  ELSE serialize_message(Head(msgs)) \o Frames(Tail(msgs))

\* C16: whatever the chunks the frames a remote wrote are read in, the
\* messages decoded so far are the first of the messages framed, in order,
\* each passed on once (a Ping answered, any other forwarded); the
\* accumulator and the unread bytes together are the frames of the
\* remaining messages, untouched, the accumulator holding less than one
\* frame; and once every byte is read every message framed is decoded.
C16_FramesInOrder ==
  \A c \in ConnIds :
    conns[c].ep = "running" =>
      LET k == Len(conns[c].decoded)
          framed == conns[c].framed
          remaining == SubSeq(framed, k + 1, Len(framed))
      IN /\ k <= Len(framed)
         /\ conns[c].decoded = SubSeq(framed, 1, k)
         /\ conns[c].accumulated \o conns[c].stream = Frames(remaining)
         /\ remaining # << >>
              => Len(conns[c].accumulated) < Len(serialize_message(remaining[1]))
         /\ conns[c].stream = << >> => conns[c].decoded = framed
         /\ Len(events) + Len(conns[c].written) = k
         /\ \A i \in 1..Len(events) : events[i].message \in Range(framed)

\* Two different frames were written and every byte of them was read: both
\* are decoded, one forwarded to the manager and one answered.
C16_Witness ==
  /\ Len(conns[1].framed) = 2
  /\ conns[1].decoded = conns[1].framed
  /\ conns[1].stream = << >>
  /\ conns[1].framed[1] # conns[1].framed[2]
  /\ Len(events) = 1
  /\ Len(conns[1].written) = 1

\* --------------------------------------------------------------- claim C17
\* The kinds of the messages of a sequence.
Kinds(msgs) == [i \in 1..Len(msgs) |-> msgs[i].kind]

\* The connections whose handshake is modelled step by step.
HsConns == { c \in ConnIds : "hs" \in DOMAIN conns[c] }

\* The step completes the handshake of connection c.
Establishes(c) == Hs(c) # "established" /\ Hs(c)' = "established"

\* C17: inbound and outbound alike, the endpoint writes Version first and
\* Verack second, Verack only once it holds the peer's Version; it is
\* ESTABLISHED only from the wait for Verack; that step, and no other step,
\* upserts the row of the peer (type from the peer's user agent, no
\* failures, reachable) and emits Connected, and no other step emits a
\* Connected event.
C17_HandshakeOrder ==
  /\ [](\A c \in HsConns :
         LET k == Kinds(conns[c].wrote) IN
         /\ k \in { << >>, << "Version" >>, << "Version", "Verack" >> }
         /\ Hs(c) \in {"connect", "send_version"} <=> k = << >>
         /\ k = << "Version", "Verack" >> =>
              /\ conns[c].version = << AgentOf(conns[c].addr) >>
              /\ conns[c].node_type = from_user_agent(AgentOf(conns[c].addr))
         /\ Hs(c) = "established" => k = << "Version", "Verack" >>
         /\ conns[c].ep = "running" => Hs(c) = "established")
  /\ [][ \A c \in HsConns :
          Establishes(c) =>
            /\ Hs(c) = "await_verack"
            /\ db'[conns[c].addr] =
                 NodeInfo(from_user_agent(AgentOf(conns[c].addr)), clock, 0, TRUE,
                          <<AgentOf(conns[c].addr)>>)
            /\ events' = Append(events, Connected(conns[c].addr)) ]_vars
  /\ [][ Len(events') > Len(events) => \E c \in HsConns : Establishes(c) ]_vars
  /\ [][ \A a \in DOMAIN db :
          db'[a] # db[a] /\ db'[a].connection_failures = 0
            => \E c \in HsConns : conns[c].addr = a /\ Establishes(c) ]_vars

\* A dial and an accepted stream both completed the handshake and were
\* adopted, the accepted peer being classified Knots.
C17_Witness ==
  /\ \A c \in {1, 2} : Hs(c) = "established" /\ conns[c].ep = "running"
  /\ conns[1].dir = "out" /\ conns[2].dir = "in"
  /\ db["a2"].node_type = "knots"
  /\ Len(peers) = 2

\* --------------------------------------------------------------- claim C18
\* The step passes a received message over on connection c.
PassesOver(c) ==
  /\ c \in HsConns
  /\ "ignored" \in DOMAIN conns'[c]
  /\ conns'[c].ignored # conns[c].ignored

\* C18: a message received while the handshake waits for Version that is
\* not Version, or while it waits for Verack that is not Verack, changes
\* nothing: not the position or the fields of the handshake, no event, no
\* write to the peer, no row, no peer; and the handshake goes on from where
\* it waited.
C18_OthersDiscarded ==
  /\ [][ \A c \in ConnIds :
          PassesOver(c) =>
            LET last == conns'[c].ignored[Len(conns'[c].ignored)] IN
            /\ conns[c].task = "handshake"
            /\ Hs(c) \in {"await_version", "await_verack"}
            /\ last.hs = Hs(c)
            /\ last.msg.kind # (IF Hs(c) = "await_version"
                                THEN "Version" ELSE "Verack")
            /\ conns' = [conns EXCEPT ![c].ignored = Append(@, last)]
            /\ events' = events /\ db' = db /\ peers' = peers
            /\ sent' = << >>
            /\ pending_outbound' = pending_outbound
            /\ metrics' = metrics ]_vars
  /\ [][ \A c \in HsConns :
          ( /\ conns[c].ignored # << >>
            /\ Hs(c) \in {"await_version", "await_verack"}
            /\ Hs(c)' # Hs(c) )
            => \/ Hs(c) = "await_version" /\ Hs(c)' = "send_verack"
               \/ Hs(c) = "await_verack" /\ Hs(c)' = "established"
               \/ Hs(c)' = "none" ]_vars

\* A handshake passed over a message in each of its waits and completed.
C18_Witness ==
  \E c \in HsConns :
    /\ Hs(c) = "established"
    /\ \E i \in 1..Len(conns[c].ignored) :
         conns[c].ignored[i].hs = "await_version"
    /\ \E i \in 1..Len(conns[c].ignored) :
         conns[c].ignored[i].hs = "await_verack"

\* --------------------------------------------------------------- claim C19
\* The step ends the handshake of connection c without completing it.
FailsHandshake(c) ==
  /\ conns[c].task = "handshake"
  /\ conns'[c].task # "handshake"
  /\ Hs(c)' # "established"

\* C19: every handshake, the connect of a dial included, is over in the
\* end, the timer firing if nothing else ends it; an attempt that ends
\* without the peer's Version and Verack adds no peer and its endpoint is
\* never run, then or later.
C19_HandshakeResolves ==
  /\ \A c \in ConnIds :
       (conns[c].task = "handshake") ~> (conns[c].task # "handshake")
  /\ [][ \A c \in ConnIds :
          FailsHandshake(c) =>
            /\ peers' = peers
            /\ conns'[c].ep = "none" \/ conns'[c] = OverConn("closed") ]_vars
  /\ [](\A c \in ConnIds :
         conns[c].ep = "running" => Hs(c) = "established")
  /\ [](\A i \in 1..Len(peers) : Hs(peers[i].conn) = "established")
  /\ [][ \A c \in ConnIds :
          conns[c].task # "handshake" /\ conns[c].ep # "running"
            /\ Hs(c) # "established"
            => conns'[c].ep # "running" ]_vars

\* Both attempts ended while they waited, the dial's failure was recorded
\* and resolved, and no peer was added.
C19_Witness ==
  /\ \A c \in {1, 2} : conns[c] = OverConn("closed")
  /\ peers = << >>
  /\ pending_outbound = {}
  /\ db["a1"].connection_failures = 1

\* --------------------------------------------------------------- claim C20
\* C20 as stated: when a handshake ends in a timeout or an error, inbound
\* or outbound, the endpoint is not adopted and mark_failed is applied to
\* the address of the peer.
C20_FailureMarksFailed ==
  [][ \A c \in ConnIds :
        FailsHandshake(c) =>
          /\ peers' = peers
          /\ conns'[c].ep # "running"
          /\ db' = mark_failed(db, conns[c].addr) ]_vars

\* --------------------------------------------------------------- claim C21
\* The read of the step met a header announcing an oversized payload.
MeetsOversized(c) ==
  /\ "oversized" \in DOMAIN conns[c]
  /\ conns'[c].oversized > conns[c].oversized

\* C21 as stated: the read that meets a header announcing more than
\* MAX_MESSAGE_SIZE bytes of payload empties the accumulator, emits
\* Disconnected and ends the endpoint, so that nothing is decoded on that
\* connection afterwards.
C21_OversizedDropsConnection ==
  [][ \A c \in ConnIds :
        MeetsOversized(c) =>
          /\ conns'[c].accumulated = << >>
          /\ conns'[c].ep # "running"
          /\ events' = Append(events, Disconnected(conns[c].addr)) ]_vars

\* --------------------------------------------------------------- claim C23
\* The gauges say what the list ps holds.
GaugesOf(m, ps) ==
  /\ m.connected_peers = Len(ps)
  /\ m.knots_peers = Cardinality({ i \in 1..Len(ps) : ps[i].node_type = "knots" })
  /\ m.core_peers = Cardinality({ i \in 1..Len(ps) : ps[i].node_type = "core" })
  /\ m.libre_peers = Cardinality({ i \in 1..Len(ps) : ps[i].node_type = "libre" })
  /\ m.other_peers =
       Cardinality({ i \in 1..Len(ps) : ps[i].node_type \in {"other", "unknown"} })

\* C23: the dispatch of Disconnected{addr} leaves in the peer list exactly
\* the handles of the other addresses, in their order, so that no handle of
\* addr remains; it adds one to total_disconnections, adds one failure to the
\* row of addr in the store (which becomes unreachable at the fifth) and
\* touches no other row, and sets the gauges to what the list then holds.
C23_DisconnectedHandling ==
  [][ (HeadIs("Disconnected") /\ handled'.event = Head(events)) =>
        LET addr == Head(events).addr IN
        /\ peers' = SelectSeq(peers, LAMBDA p : p.addr # addr)
        /\ addr \notin PeerAddrs(peers')
        /\ metrics'.total_disconnections = metrics.total_disconnections + 1
        /\ GaugesOf(metrics', peers')
        /\ DOMAIN db' = DOMAIN db
        /\ \A a \in DOMAIN db \ {addr} : db'[a] = db[a]
        /\ addr \in DOMAIN db =>
             /\ db'[addr].connection_failures = db[addr].connection_failures + 1
             /\ db'[addr].is_reachable =
                  (db[addr].is_reachable /\ db[addr].connection_failures + 1 < 5)
             /\ db'[addr].node_type = db[addr].node_type
             /\ db'[addr].last_seen = db[addr].last_seen ]_vars

\* The Disconnected of a peer of the list was just dispatched: its handle is
\* gone, the others are left, and its row counts one failure.
C23_Witness ==
  /\ handled.event.type = "Disconnected"
  /\ handled.event.addr \notin PeerAddrs(peers)
  /\ Len(peers) = Len(EstablishedAddrs) - 1
  /\ metrics.total_disconnections = 1
  /\ metrics.connected_peers = Len(peers)
  /\ db[handled.event.addr].connection_failures = 1

\* --------------------------------------------------------------- claim C26
\* What a part of a user agent says, whatever its spelling.
PartSays(part) ==
  CASE part \in { << "K", "n", "o", "t", "s", ":", "2" >>,
                  << "K", "N", "O", "T", "S" >> } -> "knots"
    [] part \in { << "L", "i", "b", "r", "e", "R", "e", "l", "a", "y" >>,
                  << "l", "i", "b", "r", "E" >> } -> "libre"
    [] part \in { << "S", "a", "t", "o", "s", "h", "i", ":", "2", "5" >>,
                  << "s", "A", "T", "O", "S", "H", "I" >> } -> "satoshi"
    [] part = << "b", "t", "c", "-", "C", "o", "r", "e" >> -> "core"
    [] OTHER -> "nothing"

\* The classification by precedence: knots, then libre, then satoshi or
\* core, else Other.
ClassOf(parts) ==
  LET says == { PartSays(parts[i]) : i \in 1..Len(parts) } IN
  IF "knots" \in says THEN "knots"
  ELSE IF "libre" \in says THEN "libre"
  ELSE IF says \cap {"satoshi", "core"} # {} THEN "core"
  ELSE "other"

\* C26: whatever the spelling and the order of the parts of its user agent,
\* a peer whose Version was received is classified Knots if a part says
\* knots, else LibreRelay if one says libre, else Core if one says satoshi or
\* core, else Other, and never Unknown; the handle and the row of the peer
\* carry that type.
C26_Classification ==
  \A c \in ConnIds :
    ("agent_parts" \in DOMAIN conns[c] /\ conns[c].version # << >>) =>
      LET class == ClassOf(conns[c].agent_parts) IN
      /\ conns[c].version = << JoinParts(conns[c].agent_parts) >>
      /\ conns[c].node_type = class
      /\ conns[c].node_type # "unknown"
      /\ Hs(c) = "established" => db[conns[c].addr].node_type = class
      /\ \A i \in 1..Len(peers) :
           peers[i].conn = c => peers[i].node_type = class

\* A peer whose user agent says SATOSHI and then KNOTS, in capitals, was
\* adopted as Knots.
C26_Witness ==
  \E i \in 1..Len(peers) :
    LET c == peers[i].conn IN
    /\ "agent_parts" \in DOMAIN conns[c]
    /\ conns[c].agent_parts =
         << << "s", "A", "T", "O", "S", "H", "I" >>, << "K", "N", "O", "T", "S" >> >>
    /\ peers[i].node_type = "knots"
    /\ db[peers[i].addr].node_type = "knots"

\* --------------------------------------------------------------- claim C27
\* C27: a row with five or more failures in a row is unreachable and no
\* answer of get_knots_excluding holds an unreachable row; an unreachable
\* row becomes reachable only by an upsert of its address (or by
\* mark_connected, which the store offers); and an upsert, from discovery or
\* from a handshake, leaves the row reachable with no failures, so that an
\* unlimited query offers it again unless the handshake classified it Knots.
C27_UnreachableUntilUpsert ==
  /\ [](\A a \in DOMAIN db :
          db[a].connection_failures >= 5 => ~db[a].is_reachable)
  /\ [](StoreCalled("get_knots_excluding") =>
          \A i \in 1..Len(handled.ret) : db[handled.ret[i]].is_reachable)
  /\ [][ \A a \in DOMAIN db \cap DOMAIN db' :
          (~db[a].is_reachable /\ db'[a].is_reachable) =>
            /\ StoreCalls("insert_or_update") \/ StoreCalls("mark_connected")
            /\ handled'.event.arg = a ]_vars
  /\ [][ StoreCalls("insert_or_update") =>
          LET a == handled'.event.arg IN
          /\ db'[a].is_reachable
          /\ db'[a].connection_failures = 0
          /\ db'[a].node_type # "knots" =>
               \A addrs \in get_knots_excluding(db', Cardinality(DOMAIN db')) :
                 a \in Range(addrs) ]_vars

\* A query that no limit cut has just passed over a row that is not Knots
\* and has failed five times in a row.
C27_Witness ==
  /\ StoreCalled("get_knots_excluding")
  /\ handled.event.arg >= Cardinality(DOMAIN db)
  /\ \E a \in DOMAIN db :
       /\ db[a].node_type # "knots"
       /\ db[a].connection_failures = 5
       /\ ~db[a].is_reachable
       /\ a \notin Range(handled.ret)
  /\ handled.ret # << >>

\* --------------------------------------------------------------- claim C24
\* The requested keys that are younger than the TTL.
LiveRequested ==
  { k \in DOMAIN relay_state.requested_txids :
      clock - relay_state.requested_txids[k] < REQUESTED_TXID_TTL }

TxEntry(inv) == inv.kind \in {"Transaction", "WTx", "WitnessTransaction"}

\* The entries of a list at the indexes I, in the order of the list.
Pick(list, I) ==
  [n \in 1..Cardinality(I) |->
     list[CHOOSE i \in I : Cardinality({ j \in I : j <= i }) = n]]

\* The entries of an Inv that are accepted: transaction entries whose key is
\* neither seen nor requested, the first of those that name one key.
Accepted(list) ==
  Pick(list, { i \in 1..Len(list) :
                 /\ TxEntry(list[i])
                 /\ list[i].hash \notin relay_state.seen_txids
                 /\ list[i].hash \notin LiveRequested
                 /\ \A j \in 1..(i - 1) :
                      ~(TxEntry(list[j]) /\ list[j].hash = list[i].hash) })

\* C24 as stated: the accepted entries of an Inv of a peer of the list go
\* back to that peer as the items of one GetData, in announcement order.
C24_OneGetDataBack ==
  [][ ( /\ Dispatches("Inv")
        /\ Head(events).addr \in PeerAddrs(peers)
        /\ Accepted(HeadInvList) # <<>> ) =>
        /\ Len(sent') = 1
        /\ sent'[1].addr = Head(events).addr
        /\ sent'[1].msg = MsgGetData(Accepted(HeadInvList)) ]_vars

\* C24 amended: the keys of the accepted entries are recorded as requested
\* at the current time, next to the requests younger than the TTL, which
\* stay as they are; seen_keys is untouched.  When an entry is accepted and
\* the announcer is in the list with a queue that accepts, the one message
\* enqueued is the GetData of the accepted entries, in announcement order, to
\* the announcer.  Otherwise nothing is enqueued: nothing was accepted, or
\* the announcer is not in the list, or its queue refused, and then it is
\* removed from the list, the keys staying recorded as requested.
C24_GetDataForAccepted ==
  [][ Dispatches("Inv") =>
        LET P == Head(events).addr
            acc == Accepted(HeadInvList)
            keys == { acc[i].hash : i \in 1..Len(acc) }
            from == FindPeer(peers, P)
            accepts == from # <<>> /\ QueueAccepts(from[1].conn)
            req == relay_state'.requested_txids
        IN /\ DOMAIN req = LiveRequested \cup keys
           /\ \A k \in keys : req[k] = clock
           /\ \A k \in LiveRequested : req[k] = relay_state.requested_txids[k]
           /\ relay_state'.seen_txids = relay_state.seen_txids
           /\ IF acc # <<>> /\ accepts
              THEN /\ sent' = << [conn |-> from[1].conn, addr |-> P,
                                   msg |-> MsgGetData(acc)] >>
                   /\ peers' = peers
              ELSE /\ sent' = <<>>
                   /\ peers' = IF acc # <<>>
                               THEN SelectSeq(peers, LAMBDA h : h.addr # P)
                               ELSE peers ]_vars

\* An Inv of a block, a transaction and the same key once more was just
\* dispatched: the GetData enqueued asks for the transaction once.
C24_Witness ==
  /\ HandledInv
  /\ handled.event.message.list = <<Block(7), WitnessTransaction(22), WTx(22)>>
  /\ Len(sent) = 1
  /\ sent[1].addr = handled.event.addr
  /\ sent[1].msg = MsgGetData(<<WitnessTransaction(22)>>)
  /\ relay_state.seen_txids # {}

\* --------------------------------------------------------------- claim C25
HandledGetData ==
  handled.event.type = "Message" /\ handled.event.message.kind = "GetData"

\* The cached transaction a requested entry names, if any: by txid for
\* Transaction and WitnessTransaction, through the wtxid index for WTx.
CacheHit(inv) ==
  LET cache == relay_state.tx_cache
      index == relay_state.tx_by_wtxid
  IN IF inv.kind \in {"Transaction", "WitnessTransaction"}
     THEN (IF inv.hash \in DOMAIN cache THEN <<cache[inv.hash]>> ELSE <<>>)
     ELSE IF inv.kind = "WTx" /\ inv.hash \in DOMAIN index
               /\ index[inv.hash] \in DOMAIN cache
     THEN <<cache[index[inv.hash]]>>
     ELSE <<>>

\* The messages the queue of the peer at addr still takes.
RoomOf(addr) ==
  LET from == FindPeer(peers, addr) IN
  IF from # <<>> /\ conns[from[1].conn].ep = "running"
  THEN OUTBOUND_QUEUE_CAPACITY - conns[from[1].conn].qlen
  ELSE 0

\* C25: a dispatched GetData from P is answered with one Tx to P per
\* requested entry that hits the cache, in request order, as far as P's
\* queue takes them; entries that miss produce nothing; transactions_relayed
\* grows by exactly the number of Tx that were queued, and the relay state is
\* left as it was.
C25_GetDataReplies ==
  [][ Dispatches("GetData") =>
        LET P == Head(events).addr
            list == Head(events).message.list
            hits == Pick(list, { i \in 1..Len(list) : CacheHit(list[i]) # <<>> })
            n == Min(Len(hits), RoomOf(P))
        IN /\ Len(sent') = n
           /\ \A i \in 1..n : /\ sent'[i].addr = P
                              /\ sent'[i].msg = MsgTx(CacheHit(hits[i])[1])
           /\ metrics'.transactions_relayed = metrics.transactions_relayed + n
           /\ relay_state' = relay_state ]_vars

\* A GetData naming a cached transaction twice, by wtxid and by txid, and a
\* block was just dispatched: the first Tx was queued and counted, the second
\* was refused by the full queue.
C25_Witness ==
  /\ HandledGetData
  /\ handled.event.message.list = <<WTx(21), Block(7), WitnessTransaction(2)>>
  /\ Len(sent) = 1
  /\ sent[1].msg = MsgTx([body |-> 2, wit |-> 1])
  /\ metrics.transactions_relayed = 1
  /\ handled.event.addr \notin PeerAddrs(peers)

\* --------------------------------------------------------------- claim C22
\* The step dispatches a message of one of the four kinds the manager answers.
DispatchesMessage ==
  /\ HeadIs("Message")
  /\ Head(events).message.kind \in {"Tx", "Inv", "GetData", "GetAddr"}
  /\ handled'.event = Head(events)

\* The step is a discovery cycle.
Discovers == handled'.event.type = "Discovery"

\* The messages the dispatch of the event at the head of the channel
\* addresses to the peer p of the list: the Inv of a new transaction to every
\* peer but the sender and the Knots peers, the GetData for the accepted
\* entries of an Inv, one Tx per cache hit of a GetData, and the Addr for a
\* GetAddr when the list holds another peer, to the sender.
WantedBy(p) ==
  LET e == Head(events)
      m == e.message
  IN CASE m.kind = "Tx" ->
            IF /\ compute_txid(m.tx) \notin relay_state.seen_txids
               /\ p.addr # e.addr
               /\ p.node_type # "knots"
            THEN 1 ELSE 0
       [] m.kind = "Inv" ->
            IF p.addr = e.addr /\ Accepted(m.list) # <<>> THEN 1 ELSE 0
       [] m.kind = "GetData" ->
            IF p.addr = e.addr
            THEN Cardinality({ i \in 1..Len(m.list) : CacheHit(m.list[i]) # <<>> })
            ELSE 0
       [] m.kind = "GetAddr" ->
            IF p.addr = e.addr /\ OtherPeers(e.addr) # {} THEN 1 ELSE 0

\* A send of the dispatch to p fails: p's queue takes fewer messages than
\* the dispatch addresses to it.
Refused(p) ==
  WantedBy(p) > (IF conns[p.conn].ep = "running"
                 THEN OUTBOUND_QUEUE_CAPACITY - conns[p.conn].qlen ELSE 0)

\* The manager's four send paths: the dispatch ends (no send waits for room
\* in a queue) and leaves in the peer list exactly the peers none of whose
\* sends failed, with the gauges saying what the list then holds.
ManagerSendsReap ==
  DispatchesMessage =>
    /\ peers' = SelectSeq(peers, LAMBDA p : ~Refused(p))
    /\ GaugesOf(metrics', peers')

\* C22 as stated: the same for the GetAddr of a discovery cycle, whose
\* sampled peer is removed from the list, and the gauges refreshed, when its
\* queue refuses the message.
C22_EveryFailedSendReaps ==
  [][ /\ ManagerSendsReap
      /\ Discovers =>
           /\ \A i \in 1..Len(handled'.handles) :
                ~QueueAccepts(handled'.handles[i].conn) =>
                  handled'.handles[i].addr \notin PeerAddrs(peers')
           /\ GaugesOf(metrics', peers') ]_vars

\* C22 amended: a failed send of the manager (GetData reply, Tx reply, Addr
\* reply, Inv relay) removes the peer from the list and refreshes the gauges
\* within the dispatch; a discovery cycle sends GetAddr to at most
\* DiscoveryTake peers of the list, queues it where the queue accepts, and
\* leaves the peer list and the gauges as they were where it refuses.
C22_FailedSendReaps ==
  [][ /\ ManagerSendsReap
      /\ Discovers =>
           LET handles == handled'.handles IN
           /\ Len(handles) = Min(Len(peers), DiscoveryTake)
           /\ \A i \in 1..Len(handles) : \E j \in 1..Len(peers) : handles[i] = peers[j]
           /\ sent' = SelectSeq([i \in 1..Len(handles) |->
                                   [conn |-> handles[i].conn,
                                    addr |-> handles[i].addr, msg |-> MsgGetAddr]],
                                LAMBDA s : QueueAccepts(s.conn))
           /\ peers' = peers
           /\ metrics' = metrics ]_vars

\* A new Tx of a peer was just dispatched, its Inv found the queue of the
\* other peer full, and that peer, which never disconnected, is gone from the
\* list and from the gauges.
C22_Witness ==
  /\ HandledTx
  /\ handled.is_new
  /\ sent = <<>>
  /\ metrics.total_disconnections = 0
  /\ PeerAddrs(peers) = {handled.event.addr}
  /\ metrics.connected_peers = 1
  /\ \E c \in ConnIds : conns[c].ep = "running" /\ conns[c].addr \notin PeerAddrs(peers)

\* --------------------------------------------------------------- claim C28
\* The step dispatches the Addresses event at the head of the channel.
DispatchesAddresses == HeadIs("Addresses") /\ handled'.event = Head(events)

\* The step is the filler's query of the store.
Queries == handled'.event.type = "Query"

\* The public addresses among the entries of a gossiped list.
PublicOf(list) ==
  { list[i].addr : i \in { j \in 1..Len(list) : list[j].addr \notin PrivateAddrs } }

\* The row gossip writes: type Unknown, no user agent, seen now, no failure,
\* reachable.
GossipRow == [ node_type |-> "unknown", last_seen |-> clock,
               connection_failures |-> 0, is_reachable |-> TRUE,
               user_agent |-> <<>> ]

\* The rows the filler's query may return.
Candidates == { a \in DOMAIN db : db[a].node_type # "knots" /\ db[a].is_reachable }

\* C28: the dispatch of gossiped addresses leaves, for every public entry,
\* the row GossipRow in the store, whatever row the address had before (a
\* Knots row with its user agent included), and touches no other row; a
\* query of the filler whose limit covers the candidates returns every
\* reachable row of type Unknown, and the filler takes every such IPv4
\* address that is neither connected nor pending into its launches as far
\* as its budget goes.
C28_GossipOverwrites ==
  /\ [][ DispatchesAddresses =>
           LET gossiped == PublicOf(Head(events).addrs) IN
           /\ DOMAIN db' = DOMAIN db \cup gossiped
           /\ \A a \in DOMAIN db' :
                db'[a] = IF a \in gossiped THEN GossipRow ELSE db[a] ]_vars
  /\ [][ (Queries /\ Cardinality(Candidates) <= 4 * filler.attempt_budget) =>
           LET unknown == { a \in Candidates : db[a].node_type = "unknown" }
               free == { a \in unknown : /\ a \notin Addrs6
                                         /\ a \notin filler.connected_addrs
                                         /\ a \notin filler.pending_addrs }
           IN /\ unknown \subseteq Range(handled'.addrs)
              /\ Cardinality(Candidates) <= filler.attempt_budget =>
                   free \subseteq Range(filler'.addrs) ]_vars

\* The node at a2, whose row the store held as Knots with its user agent, is
\* being dialed by the filler after gossip made its row Unknown.
C28_Witness ==
  /\ "a2" \in DOMAIN db
  /\ db["a2"].node_type = "unknown"
  /\ db["a2"].user_agent = <<>>
  /\ from_user_agent(AgentOf("a2")) = "knots"
  /\ \E c \in ConnIds : /\ conns[c].addr = "a2"
                        /\ conns[c].dir = "out"
                        /\ conns[c].task = "handshake"

\* --------------------------------------------------------------- claim C29
\* C29 as stated: the dispatch of an AddrV2 of a connected peer adds one to
\* addr_messages_received and leaves, for every public entry, the row
\* GossipRow in the store.
C29_AddrV2Ingested ==
  [][ Dispatches("AddrV2") =>
        /\ metrics'.addr_messages_received = metrics.addr_messages_received + 1
        /\ \A a \in PublicOf(Head(events).message.list) :
             a \in DOMAIN db' /\ db'[a] = GossipRow ]_vars

\* --------------------------------------------------------------- claim C30
\* C30: a tick of the filler that finds c peers starts a round only when
\* c < target, with the budget min(d + d/2, 192) for d = target - c, and
\* leaves the filler idle otherwise; the round keeps its budget until the
\* query, reads at most 4 * budget candidates from the store and takes at
\* most budget of them as its launches; a dial is launched only for the
\* first of the launches that remain, which is then removed, so that a round
\* launches at most budget dials and a tick with c >= target none.
C30_FillerBudget ==
  [][ LET c == Len(peers)
          target == filler.target
          d == target - c
          budget == filler.attempt_budget
      IN /\ (filler.pc = "idle" /\ c < target /\ filler' # filler) =>
              /\ filler'.attempt_budget =
                   (IF d + (d \div 2) < 192 THEN d + (d \div 2) ELSE 192)
              /\ filler'.addrs = <<>>
         /\ (filler.pc = "idle" /\ c >= target) => filler' = filler
         /\ filler.pc \in {"connected_addrs", "pending_addrs"} =>
              /\ filler'.attempt_budget = budget
              /\ filler'.addrs = <<>>
         /\ Queries =>
              /\ filler.pc = "query"
              /\ Len(handled'.addrs) <= 4 * budget
              /\ Len(filler'.addrs) <= budget
         /\ (filler.pc = "query" /\ filler' # filler) => Queries
         /\ \A k \in ConnIds :
              Launches(k) =>
                /\ filler.pc = "launch"
                /\ conns'[k].addr = Head(filler.addrs)
                /\ \A j \in ConnIds \ {k} : ~Launches(j)
         /\ (filler.pc = "launch" /\ filler' # filler) =>
              /\ \E k \in ConnIds : Launches(k)
              /\ filler'.addrs = Tail(filler.addrs) ]_vars

\* With one peer and the target of two the round has the budget 1: the
\* query found five candidates in the store and returned four, at least two of
\* them free to dial, and the filler took one.
C30_Witness ==
  /\ handled.event.type = "Query"
  /\ filler.target = target_peers
  /\ Len(peers) = 1
  /\ Cardinality(Candidates) = 5
  /\ Len(handled.addrs) = 4
  /\ Cardinality({ a \in Range(handled.addrs) :
                     a \notin Addrs6 /\ a \notin PeerAddrs(peers) }) >= 2
  /\ filler.pc = "launch"
  /\ Len(filler.addrs) = 1

\* --------------------------------------------------------------- claim C31
\* The endpoint of connection c returns from Peer::run in this step.
Terminates(c) == conns[c].ep = "running" /\ conns'[c].ep # "running"

\* C31: the step in which a running endpoint returns (zero-byte read, read
\* error, write error, keepalive error) appends exactly one event to the
\* channel, the Disconnected of the endpoint's address, and every event that
\* enters the channel is emitted by an endpoint that is running before the
\* step, so that an endpoint emits nothing after its Disconnected.
C31_DisconnectedIsLast ==
  [][ /\ \A c \in ConnIds :
           Terminates(c) =>
             events' = Append(events, Disconnected(conns[c].addr))
      /\ Len(events') > Len(events) =>
           /\ Len(events') = Len(events) + 1
           /\ \E c \in ConnIds :
                /\ conns[c].ep = "running"
                /\ conns[c].addr = events'[Len(events')].addr
                /\ events'[Len(events')].type = "Disconnected" => Terminates(c)
      ]_vars

\* After a GetAddr was dispatched an endpoint has returned: its
\* Disconnected waits in the channel and no connection has its address.
C31_Witness ==
  /\ events # <<>>
  /\ events[1].type = "Disconnected"
  /\ \A c \in ConnIds : conns[c].addr # events[1].addr
  /\ \E c \in ConnIds : conns[c].ep = "closed"
  /\ metrics.getaddr_messages_received > 0

\* --------------------------------------------------------------- claim C32
\* C32: a whole frame that does not decode (wrong magic, bad checksum,
\* malformed payload) leaves the accumulator with the read that completes
\* it, is passed on to nobody and leaves the endpoint running: the messages
\* decoded are at every moment the first of the decodable messages framed,
\* in order, each answered (Ping) or surfaced as a Message event, nothing
\* else enters the channel, the accumulator never starts with a whole frame,
\* and once every byte is read every decodable message framed is decoded,
\* those framed after an undecodable one included.
C32_BadFrameSkipped ==
  \A c \in ConnIds :
    conns[c].task # "none" =>
      LET framed == conns[c].framed
          decodable == SelectSeq(framed, LAMBDA m : m.kind # "Corrupt")
          k == Len(conns[c].decoded)
          acc == conns[c].accumulated
      IN /\ conns[c].ep = "running"
         /\ k <= Len(decodable)
         /\ conns[c].decoded = SubSeq(decodable, 1, k)
         /\ Len(acc) >= HeaderLen =>
              Len(acc) < HeaderLen + acc[LengthAt] + 256 * acc[LengthAt + 1]
         /\ conns[c].stream = << >> =>
              /\ acc = << >>
              /\ conns[c].decoded = decodable
         /\ Len(events) + Len(conns[c].written) = k
         /\ \A i \in 1..Len(events) :
              /\ events[i].type = "Message"
              /\ events[i].message \in Range(decodable)
              /\ events[i].message.kind # "Ping"

\* A frame with a bad checksum was followed by a FeeFilter; every byte was
\* read and the FeeFilter, alone, was decoded and is in the channel.
C32_Witness ==
  \E c \in ConnIds :
    /\ conns[c].task # "none"
    /\ conns[c].framed = << MsgCorrupt("checksum"), MsgFeeFilter(249) >>
    /\ conns[c].stream = << >>
    /\ conns[c].decoded = << MsgFeeFilter(249) >>
    /\ events = << Message(conns[c].addr, MsgFeeFilter(249)) >>

\* --------------------------------------------------------------- claim C39
\* C39: through the upserts of handshake, gossip and DNS, mark_failed and
\* prune_old, a row of the store is unreachable exactly
\* when it counts five failures or more; and a mark_failed for an address
\* that has no row leaves the store as it is, without a row for the address.
C39_UnreachableIffFive ==
  /\ \A a \in DOMAIN db :
       (~db[a].is_reachable) <=> (db[a].connection_failures >= 5)
  /\ \A a \in (Addrs \cup Addrs6) \ DOMAIN db : mark_failed(db, a) = db

\* A mark_failed was just called for an address that has no row, while
\* another row is unreachable with more than five failures and a third is
\* reachable.
C39_Witness ==
  /\ StoreCalled("mark_failed")
  /\ handled.event.arg \notin DOMAIN db
  /\ \E a \in DOMAIN db : ~db[a].is_reachable /\ db[a].connection_failures > 5
  /\ \E a \in DOMAIN db : db[a].is_reachable

\* --------------------------------------------------------------- claim C37
\* C37 as stated: no message the manager queues to a peer classified as
\* Knots is a Tx, whatever Inv, Tx and GetData were dispatched, the GetData
\* of the Knots peer itself included.
C37_NoTxToKnots ==
  \A i \in 1..Len(sent) :
    sent[i].msg.kind = "Tx" => conns[sent[i].conn].node_type # "knots"

\* --------------------------------------------------------------- claim C38
\* C38 as stated: every key the dispatch of an Inv records in requested_keys
\* is an item of a GetData the same dispatch queued to the announcer.
C38_RequestedWasAsked ==
  [][ Dispatches("Inv") =>
        LET P == Head(events).addr
            was == relay_state.requested_txids
            req == relay_state'.requested_txids
        IN \A k \in DOMAIN req :
             (k \notin DOMAIN was \/ req[k] # was[k]) =>
               \E i \in 1..Len(sent') :
                 /\ sent'[i].addr = P
                 /\ sent'[i].msg.kind = "GetData"
                 /\ \E j \in 1..Len(sent'[i].msg.list) :
                      sent'[i].msg.list[j].hash = k ]_vars

\* --------------------------------------------------------------- claim C40
\* C40 as stated: every txid the cache holds is in seen_keys.
C40_CachedIsSeen == DOMAIN relay_state.tx_cache \subseteq relay_state.seen_txids

\* C40 amended: a cached txid can be missing from seen_keys only when
\* seen_keys is full, its keys having been pushed out by later keys, the
\* wtxids of transactions that were not new among them; the cache queue
\* names every cached txid once.  A Tx whose txid is seen leaves the cache
\* and its queue untouched and is not new, though its wtxid enters
\* seen_keys; a Tx whose txid is not seen is new whether or not the cache
\* holds the txid, and when it does, insert_tx replaces the cached
\* transaction and leaves the queue as it is.
C40_CachedUntilPushedOut ==
  /\ [](LET rs == relay_state IN
        /\ ~(DOMAIN rs.tx_cache \subseteq rs.seen_txids)
             => Len(rs.seen_order) = SEEN_TX_CACHE_LIMIT
        /\ DOMAIN rs.tx_cache = Range(rs.tx_cache_order)
        /\ Len(rs.tx_cache_order) = Cardinality(DOMAIN rs.tx_cache))
  /\ [][ Dispatches("Tx") =>
           LET tx == Head(events).message.tx
               txid == tx.body
               wtxid == IF tx.wit = 0 THEN tx.body ELSE 10 * tx.body + tx.wit
               rs == relay_state
           IN /\ wtxid \in relay_state'.seen_txids
              /\ txid \in rs.seen_txids =>
                   /\ ~handled'.is_new
                   /\ relay_state'.tx_cache = rs.tx_cache
                   /\ relay_state'.tx_cache_order = rs.tx_cache_order
              /\ txid \notin rs.seen_txids =>
                   /\ handled'.is_new
                   /\ relay_state'.tx_cache[txid] = tx
                   /\ txid \in DOMAIN rs.tx_cache =>
                        relay_state'.tx_cache_order = rs.tx_cache_order ]_vars

\* A transaction was just accepted as new for the second time while the
\* cache held it throughout: no other txid was ever accepted.
C40_Witness ==
  /\ HandledTx
  /\ handled.is_new
  /\ announced[handled.event.message.tx.body] = 2
  /\ metrics.transactions_received = 2
  /\ relay_state.tx_cache_order = << handled.event.message.tx.body >>

\* --------------------------------------------------------------- claim C36
\* The event channel is empty and no task is between its accept or launch
\* and its end.
Quiescent ==
  /\ events = <<>>
  /\ \A c \in ConnIds : conns[c].task \in {"none", "done"}

\* C36 as stated: at quiescence connected_peers is the length of the peer
\* list and the gauges per type are the counts of the list per type.
C36_GaugesAtQuiescence == Quiescent => GaugesOf(metrics, peers)

\* --------------------------------------------------------------- claim C34
\* The peer list holds the handle of the endpoint of connection c.
Listed(c) == \E i \in 1..Len(peers) : peers[i].conn = c

\* C34: when the endpoint of an adopted peer has returned while its handle
\* is in the peer list, the event loop eventually takes its Disconnected
\* and the list then holds no handle of that endpoint.
C34_TerminatedIsRemoved ==
  \A c \in ConnIds : (conns[c].ep = "closed" /\ Listed(c)) ~> ~Listed(c)

\* The endpoint of an adopted peer has returned and its Disconnected was
\* dispatched: its handle is gone from the list, which holds another peer.
C34_Witness ==
  /\ handled.event.type = "Disconnected"
  /\ metrics.total_connections = 2
  /\ Len(peers) = 1
  /\ \E c \in ConnIds : conns[c].ep = "closed" /\ ~Listed(c)

\* --------------------------------------------------------------- claim C33
\* The step dispatches the Disconnected event at the head of the channel.
DispatchesDisconnected ==
  HeadIs("Disconnected") /\ handled'.event = Head(events)

\* C33: a handle of the peer list is missing from the list after a step
\* only when the step dispatched the Disconnected of the handle's address,
\* or dispatched a message and a send to the handle's peer failed; every
\* other step (Connected, Addresses, a dispatch whose sends succeed, the
\* filler, a discovery cycle, an adoption or the rejection of a duplicate)
\* keeps every handle, and the handles that stay keep their order.
C33_OnlyTwoWaysOut ==
  [][ /\ \A i \in 1..Len(peers) :
           (\A j \in 1..Len(peers') : peers'[j] # peers[i]) =>
             \/ DispatchesDisconnected /\ Head(events).addr = peers[i].addr
             \/ DispatchesMessage /\ Refused(peers[i])
      /\ \A i, j \in 1..Len(peers) :
           i < j => \A k, l \in 1..Len(peers') :
                      (peers'[k] = peers[i] /\ peers'[l] = peers[j]) => k < l
    ]_vars

\* An inbound connection from the address of a listed peer was just dropped
\* as a duplicate after a discovery cycle had filled the peer's queue, and
\* the list holds the peer's handle as before; gossip was dispatched.
C33_Witness ==
  /\ \E c \in ConnIds : conns[c].ep = "dropped"
  /\ Len(peers) = 1
  /\ peers[1].conn = 1
  /\ conns[1].qlen = OUTBOUND_QUEUE_CAPACITY
  /\ metrics.addr_messages_received = 1

\* --------------------------------------------------------------- claim C35
\* C35 as stated: the dispatch of a Disconnected keeps in the peer list
\* every handle whose endpoint is running, the handle adopted for a
\* re-dialed address whose earlier endpoint has just returned included.
C35_RunningHandleStays ==
  [][ DispatchesDisconnected =>
        \A i \in 1..Len(peers) :
          conns[peers[i].conn].ep = "running" =>
            \E j \in 1..Len(peers') : peers'[j] = peers[i] ]_vars
====
